---- MODULE Spec2Model ----
(***************************************************************************)
(* Gaming Optimizer: the Process Guard (process.rs), the Profile Store     *)
(* (profile.rs), the profile editor (gui/mod.rs), the overlay window       *)
(* (overlay.rs), the tray application (main.rs) and the tray loops         *)
(* (ipc.rs, tray.rs, tray_flyout.rs) as state machines.                    *)
(*                                                                         *)
(* Strings are sequences of one-character strings, so that to_lowercase,   *)
(* ends_with(".exe"), trim and len() are computed as the code computes     *)
(* them.                                                                   *)
(***************************************************************************)
EXTENDS Integers, Sequences, FiniteSets, TLC

VARIABLES
    \* ---- process.rs: one call of kill_processes ----
    sys,             \* the System snapshot: sys[pid] is the process name
    process_names,   \* the argument of kill_processes
    ti,              \* index of the target the outer for loop is at
    pi,              \* index of the process the inner for loop is at
    found_any, killed_any, failed_any,
    report,          \* the KillReport being built
    attempts,        \* history of process.kill() calls: <<target index, pid, result>>
    \* ---- profile.rs: validate / is_profile_name_unique / save / load ----
    files,           \* the paths that exist on disk (crosshair images)
    disk,            \* the contents of <data-dir>/profiles.json, or NoFile
    call,            \* the last Profile Store call: its name and arguments
    ret,             \* what that call returned
    saved,           \* the list of the last save_profiles whose document is on disk
    \* ---- gui/mod.rs: GameOptimizer ----
    profiles,
    selected_profile_index,
    edit_name, edit_x_offset, edit_y_offset, edit_image_path,
    edit_overlay_enabled,
    process_selection,
    status_message,  \* the kind of the message shown, not its text
    status_parts,    \* the parts the status of the last activation is made of
    data_dir,
    active_profile_name,
    overlay_handle,
    focus,           \* the group of inputs the user gives in this run
    tray_icon,       \* the Option<TrayIcon>: the menu the tray icon shows
    menu_events,     \* the clicks in the channel of MenuEvent::receiver()
    clicked,         \* history: how many menu items were clicked
    taken,           \* history: the clicks try_recv gave check_tray_events
    ticks,           \* the parity of the TrayTick messages handled
    editor_running,  \* FALSE once the process has exited
    \* ---- overlay.rs: the overlay windows ----
    pictures,        \* what each image file decodes to
    overlay,         \* the Option<OverlayWindow> its owner holds
    surfaces,        \* how many overlay windows exist
    overlay_call,    \* the last OverlayWindow call and its arguments
    overlay_result,  \* what that call returned
    \* ---- overlay.rs: render and the frames of one overlay window ----
    canvas,          \* the OverlayWindow whose frames are followed
    inner_size,      \* window.inner_size(): <<width, height>>
    frame,           \* the buffer last presented, if any
    render_call,     \* the last call on the window, its result and whether it presented
    overflow_checks, \* whether the build panics on integer overflow
    \* ---- main.rs: AppState and the event loop ----
    app_profiles,            \* state.profiles
    active_profile_index,    \* state.active_profile_index
    config,                  \* state.config
    profiles_last_modified,  \* state.profiles_last_modified
    modified,                \* the modification time of profiles.json, in seconds
    config_file,             \* the AppConfig last written to config.json
    app_pc,                  \* where activate_profile is: "idle" or "install"
    pending_overlay,         \* the window OverlayWindow::new just returned
    app_event,               \* the event handled last
    app_log,                 \* what the handler last wrote to stderr
    app_running,             \* FALSE once the process has exited
    \* ---- ipc.rs, tray.rs, tray_flyout.rs: the bus and the tray loops ----
    gui_to_tray,       \* the messages in the channel from the editor to the tray
    tray_to_gui,       \* the messages in the channel from the tray to the editor
    gui_end,           \* "open", or "dropped" once GuiChannels is dropped
    sent_to_tray,      \* history: the messages the editor sent
    received_by_tray,  \* history: the messages try_recv gave the tray loop
    sent_to_gui,       \* history: the messages the tray loop sent
    received_by_gui,   \* history: the messages try_recv gave the editor
    tray_loop,         \* the loop that runs, or "terminated"
    tray,              \* the TrayManager or TrayFlyoutManager and the loop's locals
    now,               \* the clock Instant::now() reads, in milliseconds
    tray_input,        \* the events the last iteration of the loop took
    selections,        \* history: the entries selected in the flyout window
    forwarder_rx       \* the messages in the channel of create_profile_forwarder

killVars == <<sys, process_names, ti, pi, found_any, killed_any, failed_any,
              report, attempts>>
storeVars == <<call, ret, saved>>
fsVars == <<files, disk>>
editorVars == <<profiles, selected_profile_index, edit_name, edit_x_offset,
                edit_y_offset, edit_image_path, edit_overlay_enabled,
                process_selection, status_message, status_parts, data_dir,
                active_profile_name, overlay_handle, focus,
                tray_icon, menu_events, clicked, taken, ticks, editor_running>>
overlayVars == <<pictures, overlay, surfaces, overlay_call, overlay_result>>
appVars == <<app_profiles, active_profile_index, config, profiles_last_modified,
             modified, config_file, app_pc, pending_overlay, app_event,
             app_log, app_running>>
trayVars == <<gui_to_tray, tray_to_gui, gui_end, sent_to_tray, received_by_tray,
              sent_to_gui, received_by_gui, tray_loop, tray, now, tray_input,
              selections, forwarder_rx>>
renderVars == <<canvas, inner_size, frame, render_call, overflow_checks>>
restVars == <<overlayVars, renderVars, appVars, trayVars>>
vars == <<killVars, storeVars, fsVars, editorVars, restVars>>

(***************************************************************************)
(* Strings                                                                 *)
(***************************************************************************)
Uppers == <<"A","B","C","D","E","F","G","H","I","J","K","L","M",
            "N","O","P","Q","R","S","T","U","V","W","X","Y","Z","É","Σ">>
Lowers == <<"a","b","c","d","e","f","g","h","i","j","k","l","m",
            "n","o","p","q","r","s","t","u","v","w","x","y","z","é","σ">>

UpperChars == {Uppers[i] : i \in DOMAIN Uppers}
LowerOf == [c \in UpperChars |-> Lowers[CHOOSE i \in DOMAIN Uppers : Uppers[i] = c]]

\* char::to_lowercase
LowerChar(c) == IF c \in UpperChars THEN LowerOf[c] ELSE c

\* the characters of the names that have the Unicode property Cased, and
\* those that have Case_Ignorable
Cased(c) == c \in UpperChars \/ c \in {Lowers[i] : i \in DOMAIN Lowers} \/ c = "ς"
Case_Ignorable(c) == c = "."

\* whether the characters of s from index i on, in steps of d, are some that
\* are Case_Ignorable and then one that is Cased
RECURSIVE case_ignorable_then_cased(_, _, _)
case_ignorable_then_cased(s, i, d) ==
    IF i < 1 \/ i > Len(s) THEN FALSE
    ELSE IF Case_Ignorable(s[i]) THEN case_ignorable_then_cased(s, i + d, d)
    ELSE Cased(s[i])

\* str::to_lowercase maps Σ to σ, except at the end of a word, where it maps
\* it to ς
map_uppercase_sigma(from, i) ==
    IF case_ignorable_then_cased(from, i - 1, -1)
       /\ ~case_ignorable_then_cased(from, i + 1, 1)
    THEN "ς" ELSE "σ"

\* str::to_lowercase
to_lowercase(s) ==
    [i \in 1..Len(s) |->
        IF s[i] = "Σ" THEN map_uppercase_sigma(s, i) ELSE LowerChar(s[i])]

\* str::ends_with
ends_with(s, suffix) ==
    /\ Len(s) >= Len(suffix)
    /\ SubSeq(s, Len(s) - Len(suffix) + 1, Len(s)) = suffix

Range(s) == {s[i] : i \in DOMAIN s}

RECURSIVE Repeat(_, _)
\* str::repeat
Repeat(c, n) == IF n = 0 THEN <<>> ELSE <<c>> \o Repeat(c, n - 1)

DotExe == <<".", "e", "x", "e">>
PartialTag == <<" ", "(", "p", "a", "r", "t", "i", "a", "l", ")">>

(***************************************************************************)
(* process.rs                                                              *)
(***************************************************************************)
PROTECTED_PROCESSES == <<
    <<"c","s","r","s","s">> \o DotExe,
    <<"d","w","m">> \o DotExe,
    <<"e","x","p","l","o","r","e","r">> \o DotExe,
    <<"l","s","a","s","s">> \o DotExe,
    <<"s","e","r","v","i","c","e","s">> \o DotExe,
    <<"s","m","s","s">> \o DotExe,
    <<"s","y","s","t","e","m">>,
    <<"w","i","n","i","n","i","t">> \o DotExe,
    <<"w","i","n","l","o","g","o","n">> \o DotExe,
    <<"s","v","c","h","o","s","t">> \o DotExe >>

\* the protected names, each lower-cased as is_protected compares them
ProtectedLowered ==
    {to_lowercase(PROTECTED_PROCESSES[i]) : i \in DOMAIN PROTECTED_PROCESSES}

\* process.rs:48-53
is_protected(process_name) ==
    LET name_lower == to_lowercase(process_name)
    IN  \E protected \in ProtectedLowered : protected = name_lower

normalize_process_name(name) ==
    LET lower == to_lowercase(name)
    IN  IF ends_with(lower, DotExe)
        THEN SubSeq(lower, 1, Len(lower) - 4)
        ELSE lower

\* process.rs:98, the guard of the blocklist branch, with the raw name only
TargetBlockedRawOnly(target_name) == is_protected(target_name)

\* process.rs:98, the guard of the blocklist branch
TargetBlocked(target_name) ==
    \/ is_protected(normalize_process_name(target_name))
    \/ is_protected(target_name)

\* process.rs:113-114, the match of a running process against a target
ProcessMatches(process_name, target_name) ==
    \/ normalize_process_name(process_name) = normalize_process_name(target_name)
    \/ to_lowercase(process_name) = to_lowercase(target_name)

EmptyReport ==
    [killed |-> <<>>, failed |-> <<>>, not_found |-> <<>>,
     blocklist_skipped |-> <<>>]

\* Bounds of the Process Guard model
MaxProcs == 2
MaxTargets == 2

ProcNames == {
    <<"c","s","r","s","s">> \o DotExe,
    <<"S","y","s","t","e","m">>,
    <<"N","o","t","e","p","a","d">> \o DotExe,
    <<"A","Σ">> \o DotExe }

TargetNames == {
    <<"c","s","r","s","s">>,
    <<"C","S","R","S","S",".","E","X","E">>,
    <<"S","y","s","t","e","m">> \o DotExe,
    <<"n","o","t","e","p","a","d">>,
    <<"n","o","s","u","c","h">> \o DotExe,
    <<"A","Σ">> }

SeqsUpTo(S, n) == UNION {[1..k -> S] : k \in 0..n}

KillInit ==
    /\ sys \in SeqsUpTo(ProcNames, MaxProcs)
    /\ process_names \in SeqsUpTo(TargetNames, MaxTargets)
    /\ ti = 1
    /\ pi = 1
    /\ found_any = FALSE
    /\ killed_any = FALSE
    /\ failed_any = FALSE
    /\ report = EmptyReport
    /\ attempts = {}

\* a fixed state of the Process Guard, for the specifications of the other parts
KillIdle ==
    /\ sys = <<>>
    /\ process_names = <<>>
    /\ ti = 1
    /\ pi = 1
    /\ found_any = FALSE
    /\ killed_any = FALSE
    /\ failed_any = FALSE
    /\ report = EmptyReport
    /\ attempts = {}

KillRunning == ti <= Len(process_names)

\* process.rs:98-101: a protected target goes to blocklist_skipped; continue
SkipProtected ==
    /\ KillRunning
    /\ TargetBlocked(process_names[ti])
    /\ report' = [report EXCEPT !.blocklist_skipped =
                      Append(@, process_names[ti])]
    /\ ti' = ti + 1
    /\ UNCHANGED <<sys, process_names, pi, found_any, killed_any, failed_any,
                   attempts>>

\* process.rs:108-125 with the loop left at the first failed kill
KillOneAbortOnFailure ==
    /\ KillRunning
    /\ ~TargetBlocked(process_names[ti])
    /\ pi <= Len(sys)
    /\ IF ProcessMatches(sys[pi], process_names[ti])
       THEN \E ok \in BOOLEAN :
               /\ found_any' = TRUE
               /\ killed_any' = (killed_any \/ ok)
               /\ failed_any' = (failed_any \/ ~ok)
               /\ attempts' = attempts \cup {<<ti, pi, ok>>}
               /\ pi' = IF ok THEN pi + 1 ELSE Len(sys) + 1
       ELSE /\ pi' = pi + 1
            /\ UNCHANGED <<found_any, killed_any, failed_any, attempts>>
    /\ UNCHANGED <<sys, process_names, ti, report>>

\* process.rs:108-125: one iteration of the inner loop over sys.processes().
\* The snapshot is walked in pid order; process.kill() returns either result.
KillOne ==
    /\ KillRunning
    /\ ~TargetBlocked(process_names[ti])
    /\ pi <= Len(sys)
    /\ IF ProcessMatches(sys[pi], process_names[ti])
       THEN \E ok \in BOOLEAN :
               /\ found_any' = TRUE
               /\ killed_any' = (killed_any \/ ok)
               /\ failed_any' = (failed_any \/ ~ok)
               /\ attempts' = attempts \cup {<<ti, pi, ok>>}
       ELSE UNCHANGED <<found_any, killed_any, failed_any, attempts>>
    /\ pi' = pi + 1
    /\ UNCHANGED <<sys, process_names, ti, report>>

\* process.rs:127-138 with the partial case recorded under killed only
RecordedKilledOnly(rep, target_name, found, killed, failed) ==
    IF killed
    THEN [rep EXCEPT !.killed = Append(@, target_name)]
    ELSE IF failed
    THEN [rep EXCEPT !.failed = Append(@, target_name)]
    ELSE IF ~found
    THEN [rep EXCEPT !.not_found = Append(@, target_name)]
    ELSE rep

\* process.rs:127-138: the report after the result of one target is recorded
Recorded(rep, target_name, found, killed, failed) ==
    IF killed /\ ~failed
    THEN [rep EXCEPT !.killed = Append(@, target_name)]
    ELSE IF killed /\ failed
    THEN [rep EXCEPT !.killed = Append(@, target_name \o PartialTag),
                     !.failed = Append(@, target_name \o PartialTag)]
    ELSE IF failed
    THEN [rep EXCEPT !.failed = Append(@, target_name)]
    ELSE IF ~found
    THEN [rep EXCEPT !.not_found = Append(@, target_name)]
    ELSE rep

\* process.rs:127-139: the inner loop is over; record and go to the next target
RecordResult ==
    /\ KillRunning
    /\ ~TargetBlocked(process_names[ti])
    /\ pi > Len(sys)
    /\ report' = Recorded(report, process_names[ti], found_any, killed_any,
                          failed_any)
    /\ ti' = ti + 1
    /\ pi' = 1
    /\ found_any' = FALSE
    /\ killed_any' = FALSE
    /\ failed_any' = FALSE
    /\ UNCHANGED <<sys, process_names, attempts>>

(***************************************************************************)
(* profile.rs                                                              *)
(***************************************************************************)
\* Option<T>: None is the empty sequence, Some(x) the one-element sequence
None == <<>>
Some(x) == <<x>>

TwoByteChars == {"é", "É"}

RECURSIVE ByteLen(_)
\* String::len: the length in bytes of the UTF-8 encoding
ByteLen(s) ==
    IF s = <<>> THEN 0
    ELSE (IF Head(s) \in TwoByteChars THEN 2 ELSE 1) + ByteLen(Tail(s))

\* the index of the last occurrence of c in s, 0 when there is none
LastIndexOf(s, c) ==
    IF \E i \in DOMAIN s : s[i] = c
    THEN CHOOSE i \in DOMAIN s : s[i] = c /\ \A j \in DOMAIN s : s[j] = c => j <= i
    ELSE 0

\* Path::file_name: what follows the last separator
file_name(path) ==
    LET i == LastIndexOf(path, "/")
    IN  SubSeq(path, i + 1, Len(path))

\* Path::extension: what follows the last dot of the file name, None when the
\* file name has no dot or only a leading one
extension(path) ==
    LET f == file_name(path)
        i == LastIndexOf(f, ".")
    IN  IF i <= 1 THEN None ELSE Some(SubSeq(f, i + 1, Len(f)))

MaxNameLen == 50
MinOffset == -500
MaxOffset == 500

Ok == [ok |-> TRUE, err |-> "none"]
Err(e) == [ok |-> FALSE, err |-> e]

\* profile.rs:19-61 without the Path::exists check
validateNoExists(p, fs) ==
    IF p.name = <<>> \/ ByteLen(p.name) > MaxNameLen
    THEN Err("name")
    ELSE IF p.crosshair_image_path # None
            /\ extension(p.crosshair_image_path[1]) # Some(<<"p", "n", "g">>)
    THEN Err("not_png")
    ELSE IF p.crosshair_x_offset < MinOffset \/ p.crosshair_x_offset > MaxOffset
    THEN Err("x_offset")
    ELSE IF p.crosshair_y_offset < MinOffset \/ p.crosshair_y_offset > MaxOffset
    THEN Err("y_offset")
    ELSE Ok

\* profile.rs:19-61, Profile::validate; fs is the set of paths that exist
validate(p, fs) ==
    IF p.name = <<>> \/ ByteLen(p.name) > MaxNameLen
    THEN Err("name")
    ELSE IF p.crosshair_image_path # None
            /\ p.crosshair_image_path[1] \notin fs
    THEN Err("missing")
    ELSE IF p.crosshair_image_path # None
            /\ extension(p.crosshair_image_path[1]) # Some(<<"p", "n", "g">>)
    THEN Err("not_png")
    ELSE IF p.crosshair_x_offset < MinOffset \/ p.crosshair_x_offset > MaxOffset
    THEN Err("x_offset")
    ELSE IF p.crosshair_y_offset < MinOffset \/ p.crosshair_y_offset > MaxOffset
    THEN Err("y_offset")
    ELSE Ok

\* profile.rs:105-114
create_profile(name) ==
    [name |-> name,
     processes_to_kill |-> <<>>,
     crosshair_image_path |-> None,
     crosshair_x_offset |-> 0,
     crosshair_y_offset |-> 0,
     overlay_enabled |-> TRUE]

\* profile.rs:124-141 with the names compared as written
is_profile_name_unique_case_sensitive(ps, name, exclude_index) ==
    \A i \in 0..(Len(ps) - 1) :
        exclude_index = Some(i) \/ ps[i + 1].name # name

RECURSIVE unique_from(_, _, _, _)
\* profile.rs:127-140: the loop, from index i on
unique_from(ps, name_lower, exclude_index, i) ==
    IF i >= Len(ps) THEN TRUE
    ELSE IF exclude_index = Some(i)
    THEN unique_from(ps, name_lower, exclude_index, i + 1)
    ELSE IF to_lowercase(ps[i + 1].name) = name_lower THEN FALSE
    ELSE unique_from(ps, name_lower, exclude_index, i + 1)

\* profile.rs:124-141; indexes count from 0 as in the code
is_profile_name_unique(ps, name, exclude_index) ==
    unique_from(ps, to_lowercase(name), exclude_index, 0)

(***************************************************************************)
(* profiles.json: serde_json::to_string_pretty and serde_json::from_str on *)
(* Vec<Profile>, at the level of JSON tokens (white space, commas and      *)
(* colons left out).                                                       *)
(***************************************************************************)
Tok(t) == [t |-> t, v |-> 0]
Str(s) == [t |-> "str", v |-> s]
Num(n) == [t |-> "num", v |-> n]
Bool(b) == [t |-> "bool", v |-> b]
Key(k) == [t |-> "key", v |-> k]
Arr(a) == [t |-> "arr", v |-> a]

\* Option<String> written as the empty string when None
ser_option_as_empty_string(o) == IF o = None THEN Str(<<>>) ELSE Str(o[1])

\* profile.rs:7, derive(Serialize) on Option<String>: null or the string
ser_option(o) == IF o = None THEN Tok("null") ELSE Str(o[1])

\* profile.rs:7-15, derive(Serialize) on Profile: the fields in declaration order
ser_profile(p) ==
    <<Tok("{"), Key("name"), Str(p.name), Key("processes_to_kill"), Tok("[")>>
    \o [i \in 1..Len(p.processes_to_kill) |-> Str(p.processes_to_kill[i])]
    \o <<Tok("]"),
         Key("crosshair_image_path"), ser_option(p.crosshair_image_path),
         Key("crosshair_x_offset"), Num(p.crosshair_x_offset),
         Key("crosshair_y_offset"), Num(p.crosshair_y_offset),
         Key("overlay_enabled"), Bool(p.overlay_enabled),
         Tok("}")>>

RECURSIVE ser_profiles_from(_, _)
ser_profiles_from(ps, i) ==
    IF i > Len(ps) THEN <<>>
    ELSE ser_profile(ps[i]) \o ser_profiles_from(ps, i + 1)

\* profile.rs:94, serde_json::to_string_pretty(profiles)
to_string_pretty(ps) == <<Tok("[")>> \o ser_profiles_from(ps, 1) \o <<Tok("]")>>

ParseFail == [ok |-> FALSE, v |-> <<>>, next |-> 0]
Parsed(v, next) == [ok |-> TRUE, v |-> v, next |-> next]

RECURSIVE parse_strings(_, _, _)
\* the elements of a Vec<String>, up to the closing bracket
parse_strings(toks, pos, acc) ==
    IF pos > Len(toks) THEN ParseFail
    ELSE IF toks[pos].t = "]" THEN Parsed(Arr(acc), pos + 1)
    ELSE IF toks[pos].t = "str"
    THEN parse_strings(toks, pos + 1, Append(acc, toks[pos].v))
    ELSE ParseFail

\* one JSON value of the kinds a Profile holds
parse_value(toks, pos) ==
    IF pos > Len(toks) THEN ParseFail
    ELSE IF toks[pos].t \in {"str", "num", "bool", "null"}
    THEN Parsed(toks[pos], pos + 1)
    ELSE IF toks[pos].t = "[" THEN parse_strings(toks, pos + 1, <<>>)
    ELSE ParseFail

RECURSIVE parse_fields(_, _, _)
\* the key/value pairs of an object, up to the closing brace; a key given
\* twice is an error (serde: duplicate field)
parse_fields(toks, pos, acc) ==
    IF pos > Len(toks) THEN ParseFail
    ELSE IF toks[pos].t = "}" THEN Parsed(acc, pos + 1)
    ELSE IF toks[pos].t # "key" \/ toks[pos].v \in DOMAIN acc THEN ParseFail
    ELSE LET val == parse_value(toks, pos + 1)
         IN  IF ~val.ok THEN ParseFail
             ELSE parse_fields(toks, val.next, (toks[pos].v :> val.v) @@ acc)

HasField(f, k, t) == k \in DOMAIN f /\ f[k].t = t

I32Max == 2147483647
I32Min == 0 - I32Max - 1

\* profile.rs:7-15, derive(Deserialize) on Profile: every field but the
\* Option is required and typed; unknown keys are ignored
de_profile(f) ==
    IF /\ HasField(f, "name", "str")
       /\ HasField(f, "processes_to_kill", "arr")
       /\ HasField(f, "crosshair_x_offset", "num")
       /\ f["crosshair_x_offset"].v \in I32Min..I32Max
       /\ HasField(f, "crosshair_y_offset", "num")
       /\ f["crosshair_y_offset"].v \in I32Min..I32Max
       /\ HasField(f, "overlay_enabled", "bool")
       /\ ("crosshair_image_path" \in DOMAIN f
              => f["crosshair_image_path"].t \in {"null", "str"})
    THEN Parsed([name |-> f["name"].v,
                 processes_to_kill |-> f["processes_to_kill"].v,
                 crosshair_image_path |->
                     IF HasField(f, "crosshair_image_path", "str")
                     THEN Some(f["crosshair_image_path"].v) ELSE None,
                 crosshair_x_offset |-> f["crosshair_x_offset"].v,
                 crosshair_y_offset |-> f["crosshair_y_offset"].v,
                 overlay_enabled |-> f["overlay_enabled"].v], 0)
    ELSE ParseFail

RECURSIVE parse_profiles(_, _, _)
\* the objects of the array, up to the closing bracket
parse_profiles(toks, pos, acc) ==
    IF pos > Len(toks) THEN ParseFail
    ELSE IF toks[pos].t = "]" THEN Parsed(acc, pos + 1)
    ELSE IF toks[pos].t # "{" THEN ParseFail
    ELSE LET f == parse_fields(toks, pos + 1, <<>>)
             p == de_profile(f.v)
         IN  IF ~f.ok THEN ParseFail
             ELSE IF ~p.ok THEN ParseFail
             ELSE parse_profiles(toks, f.next, Append(acc, p.v))

\* profile.rs:78, serde_json::from_str::<Vec<Profile>>(contents)
from_str(toks) ==
    IF toks = <<>> THEN ParseFail
    ELSE IF toks[1].t # "[" THEN ParseFail
    ELSE LET r == parse_profiles(toks, 2, <<>>)
         IN  IF r.ok /\ r.next = Len(toks) + 1 THEN r ELSE ParseFail

\* What the file system does to one save: the directory cannot be created, the
\* file cannot be opened for writing, the write stops part-way, or all is written
SaveOutcomes == {"ok", "mkdir_failed", "open_failed", "write_failed"}
\* ... and to one load: the file cannot be read, or it is read
LoadOutcomes == {"ok", "read_failed"}

\* profile.rs:86-102; d is the file before (None: no file), io what the file
\* system does. fs::write truncates the file before it writes.
save_profiles(ps, d, io) ==
    IF io = "mkdir_failed" THEN [disk |-> d, result |-> Err("mkdir")]
    ELSE LET json == to_string_pretty(ps)
         IN  IF io = "open_failed" THEN [disk |-> d, result |-> Err("write")]
             ELSE IF io = "write_failed"
             THEN [disk |-> Some(SubSeq(json, 1, Len(json) - 1)),
                   result |-> Err("write")]
             ELSE [disk |-> Some(json), result |-> Ok]

\* profile.rs:66-82
load_profiles(d, io) ==
    IF d = None THEN [ok |-> TRUE, v |-> <<>>, err |-> "none"]
    ELSE IF io = "read_failed" THEN [ok |-> FALSE, v |-> <<>>, err |-> "read"]
    ELSE LET r == from_str(d[1])
         IN  IF r.ok THEN [ok |-> TRUE, v |-> r.v, err |-> "none"]
             ELSE [ok |-> FALSE, v |-> <<>>, err |-> "parse"]

(***************************************************************************)
(* The Profile Store called with inputs from bounded sets                  *)
(***************************************************************************)
PngPath == <<"c", ".", "p", "n", "g">>

Paths == {
    PngPath,
    <<"c", ".", "P", "N", "G">>,
    <<"c", ".", "j", "p", "g">>,
    <<"d", "/", ".", "p", "n", "g">> }

ValidateNames ==
    {Repeat("a", n) : n \in {0, 1, MaxNameLen, MaxNameLen + 1}}
    \cup {Repeat("é", n) : n \in {MaxNameLen \div 2, MaxNameLen \div 2 + 1}}

OffsetSamples == {MinOffset - 1, MinOffset, 0, MaxOffset, MaxOffset + 1}

ValidateInputs ==
    {[create_profile(n) EXCEPT !.crosshair_image_path = ip,
                               !.crosshair_x_offset = x,
                               !.crosshair_y_offset = y] :
        n \in ValidateNames,
        ip \in {None} \cup {Some(q) : q \in Paths},
        x \in OffsetSamples, y \in OffsetSamples}

ProfileWord == <<"P", "r", "o", "f", "i", "l", "e", " ">>

UniqueNames == {
    ProfileWord \o <<"1">>,
    ProfileWord \o <<"2">>,
    ProfileWord \o <<"3">>,
    to_lowercase(ProfileWord) \o <<"1">> }

\* Bounds of the Profile Store model
MaxUniqueLen == 2
MaxStoreLen == 2

StoreProfiles == {
    create_profile(<<"A">>),
    [name |-> <<"B", " ", "é">>,
     processes_to_kill |-> <<<<"x">> \o DotExe, <<"y">>>>,
     crosshair_image_path |-> Some(PngPath),
     crosshair_x_offset |-> MinOffset,
     crosshair_y_offset |-> 7,
     overlay_enabled |-> FALSE],
    [name |-> <<"n", "u", "l", "l">>,
     processes_to_kill |-> <<<<>>>>,
     crosshair_image_path |-> Some(<<>>),
     crosshair_x_offset |-> 0,
     crosshair_y_offset |-> MaxOffset,
     overlay_enabled |-> TRUE] }

NoCall == [op |-> "none"]

StoreInit ==
    /\ call = NoCall
    /\ ret = Ok
    /\ saved = None

FsInit ==
    /\ files = {}
    /\ disk = None

\* the user or another program creates a file
CreateFile ==
    \E q \in Paths :
        /\ call = NoCall
        /\ q \notin files
        /\ files' = files \cup {q}
        /\ UNCHANGED <<disk, storeVars>>

\* ... or deletes one
DeleteFile ==
    \E q \in Paths :
        /\ call = NoCall
        /\ q \in files
        /\ files' = files \ {q}
        /\ UNCHANGED <<disk, storeVars>>

\* profile.validate()
ValidateCall ==
    \E p \in ValidateInputs :
        /\ call = NoCall
        /\ call' = [op |-> "validate", profile |-> p]
        /\ ret' = validate(p, files)
        /\ UNCHANGED <<saved, fsVars>>

\* is_profile_name_unique(&profiles, name, exclude_index)
UniqueCall ==
    \E names \in SeqsUpTo(UniqueNames, MaxUniqueLen), name \in UniqueNames,
       exclude_index \in {None} \cup {Some(i) : i \in 0..MaxUniqueLen} :
        /\ call = NoCall
        /\ call' = [op |-> "unique",
                    profiles |-> [i \in 1..Len(names) |-> create_profile(names[i])],
                    name |-> name,
                    exclude_index |-> exclude_index]
        /\ ret' = is_profile_name_unique(call'.profiles, name, exclude_index)
        /\ UNCHANGED <<saved, fsVars>>

\* save_profiles(&profiles, &data_dir)
SaveCall ==
    \E ps \in SeqsUpTo(StoreProfiles, MaxStoreLen), io \in SaveOutcomes :
        LET r == save_profiles(ps, disk, io)
        IN  /\ call' = [op |-> "save", profiles |-> ps, io |-> io]
            /\ ret' = r.result
            /\ disk' = r.disk
            /\ saved' = IF r.result.ok THEN Some(ps)
                        ELSE IF r.disk = disk THEN saved
                        ELSE None
            /\ UNCHANGED files

\* the caller is done with the result of validate or is_profile_name_unique
Return ==
    /\ call # NoCall
    /\ call' = NoCall
    /\ ret' = Ok
    /\ UNCHANGED <<saved, fsVars>>

\* load_profiles(&data_dir)
LoadCall ==
    \E io \in LoadOutcomes :
        /\ call' = [op |-> "load", io |-> io]
        /\ ret' = load_profiles(disk, io)
        /\ UNCHANGED <<saved, fsVars>>

(***************************************************************************)
(* gui/mod.rs: the profile editor                                          *)
(***************************************************************************)
DigitChars == <<"0", "1", "2", "3", "4", "5", "6", "7", "8", "9">>
DigitVal(c) == (CHOOSE i \in DOMAIN DigitChars : DigitChars[i] = c) - 1

RECURSIVE nat_to_string(_)
nat_to_string(n) ==
    IF n < 10 THEN <<DigitChars[n + 1]>>
    ELSE nat_to_string(n \div 10) \o <<DigitChars[(n % 10) + 1]>>

\* i32::to_string
to_string(n) == IF n < 0 THEN <<"-">> \o nat_to_string(0 - n) ELSE nat_to_string(n)

RECURSIVE digits_value(_, _)
digits_value(s, acc) ==
    IF s = <<>> THEN acc ELSE digits_value(Tail(s), 10 * acc + DigitVal(Head(s)))

\* str::parse::<i32>: an optional sign, then digits only, within the i32 range
parse_i32(s) ==
    LET signed == s # <<>> /\ s[1] \in {"+", "-"}
        body == IF signed THEN Tail(s) ELSE s
    IN  IF body = <<>> \/ \E i \in DOMAIN body : body[i] \notin Range(DigitChars)
        THEN None
        ELSE LET m == digits_value(body, 0)
                 v == IF signed /\ s[1] = "-" THEN 0 - m ELSE m
             IN  IF v \in I32Min..I32Max THEN Some(v) ELSE None

\* Option::unwrap_or
unwrap_or(o, d) == IF o = None THEN d ELSE o[1]

RECURSIVE trim_start(_)
trim_start(s) ==
    IF s # <<>> /\ Head(s) = " " THEN trim_start(Tail(s)) ELSE s

RECURSIVE trim_end(_)
trim_end(s) ==
    IF s # <<>> /\ s[Len(s)] = " " THEN trim_end(SubSeq(s, 1, Len(s) - 1)) ELSE s

\* str::trim
trim(s) == trim_end(trim_start(s))

\* Bounds of the editor model
MaxProfiles == 2
MaxNudge == 1

LongName == Repeat("b", MaxNameLen + 1)
\* One run of the model follows a user who edits one group of form fields and
\* leaves the others as they are.
Foci == {"names", "x_offset", "y_offset", "image", "processes", "tray", "live"}
\* the runs in which the user picks and clears images, and those in which the
\* arrow buttons are pressed
ImageFoci == {"image", "live"}
\* the runs in which the list of profiles is changed
ListFoci == Foci \ {"live", "tray"}
\* the runs that start with a profiles.json in the data directory
StoredFoci == {"tray", "live"}
XFoci == {"x_offset", "live"}
YFoci == {"y_offset", "live"}
\* what the user types into the name field
NameInputs ==
    IF focus = "names" THEN {<<" ">>, <<"A">>, <<"a">>, LongName} ELSE {<<"A">>}
\* ... and into the offset fields
XInputs == {to_string(MaxOffset + 1)}
YInputs == {<<"a", "b", "c">>}
\* the executables of the process list
EditorProcs == {<<"x">> \o DotExe}
\* the files the picker offers, and those of them that hold a crosshair image
JpgPath == <<"c", ".", "j", "p", "g">>
PickerPaths == {PngPath, JpgPath}
CrosshairImages == {PngPath}
DataDir == <<"d">>
\* what the file system does to a save of the editor: all is written, or the
\* write stops part-way
EditorSaveOutcomes == {"ok", "write_failed"}

\* how many items of the tray menu the user clicks in one run
MaxClicks == 2

\* gui/mod.rs:106-191, create_tray_icon: the menu that is built. Each profile
\* has an item, labelled with a check mark if it is the active one; a list
\* that is not empty is followed by the "(Deactivate)" item.
TrayMenu(ps, active) ==
    [items |-> [i \in 1..Len(ps) |->
                   [name |-> ps[i].name, checked |-> active = Some(ps[i].name)]],
     deactivate |-> ps # <<>>]

\* gui/mod.rs:177-190: TrayIconBuilder::build() gives the icon or an error
TrayBuilds == IF focus = "tray" THEN {TRUE, FALSE} ELSE {TRUE}
create_tray_icon(ps, active, built) ==
    IF built THEN Some(TrayMenu(ps, active)) ELSE None

\* a click on an item of the tray menu, as it waits in the channel. known says
\* that the id of the item is in TRAY_MENU_IDS.
MenuEvent(item, name, click) ==
    [item |-> item, name |-> name, known |-> TRUE, click |-> click]

\* the items of the menu the tray icon shows
DisplayedItems(menu) ==
    {[item |-> "profile", name |-> menu.items[i].name] : i \in DOMAIN menu.items}
    \cup (IF menu.deactivate THEN {[item |-> "none", name |-> <<>>]} ELSE {})
    \cup {[item |-> it, name |-> <<>>] : it \in {"overlay", "settings", "exit"}}

\* gui/mod.rs:121-162: every item of a new menu has an id of its own, which
\* replaces the one in TRAY_MENU_IDS; none_id alone is left as it is when the
\* list is empty. The clicks that wait hold the ids of the menu before.
ForgetIds(events, ps) ==
    [i \in DOMAIN events |->
        [events[i] EXCEPT
            !.known = (@ /\ events[i].item = "none" /\ ps = <<>>)]]

\* gui/mod.rs:435-438, update_tray: the tray icon is replaced by a new one
update_tray(ps, active, events) ==
    /\ \E built \in TrayBuilds : tray_icon' = create_tray_icon(ps, active, built)
    /\ menu_events' = ForgetIds(events, ps)

\* the profile of the profiles.json the editor finds at its start
StoredProfile ==
    [name |-> <<"B">>, processes_to_kill |-> <<>>,
     crosshair_image_path |-> Some(PngPath), crosshair_x_offset |-> 0,
     crosshair_y_offset |-> 0, overlay_enabled |-> TRUE]
StoredFile == to_string_pretty(<<StoredProfile>>)

\* gui/mod.rs:447-474, new(), and 245-257, load_profiles_from_disk: the
\* profiles of profiles.json are loaded, none if the file is absent
EditorInit ==
    /\ focus \in Foci
    /\ data_dir \in (IF focus \in StoredFoci THEN {Some(DataDir)}
                     ELSE {None, Some(DataDir)})
    /\ profiles = load_profiles(disk, "ok").v
    /\ selected_profile_index = None
    /\ edit_name = <<>>
    /\ edit_x_offset = <<"0">>
    /\ edit_y_offset = <<"0">>
    /\ edit_image_path = None
    /\ edit_overlay_enabled = FALSE
    /\ process_selection = [n \in EditorProcs |-> None]
    /\ status_message = IF data_dir = None THEN "welcome" ELSE "loaded"
    /\ status_parts = <<>>
    /\ active_profile_name = None
    /\ overlay_handle = None
    /\ \E built \in TrayBuilds : tray_icon = create_tray_icon(profiles, None, built)
    /\ menu_events = <<>>
    /\ clicked = 0
    /\ taken = <<>>
    /\ ticks = 0
    /\ editor_running = TRUE

\* the tray icon of an editor that handles no message
EditorTrayIdle ==
    /\ tray_icon = Some(TrayMenu(<<>>, None))
    /\ menu_events = <<>>
    /\ clicked = 0
    /\ taken = <<>>
    /\ ticks = 0
    /\ editor_running = TRUE

\* a fixed state of the editor, for the specifications of the other parts
EditorIdle ==
    /\ data_dir = None
    /\ profiles = <<>>
    /\ selected_profile_index = None
    /\ edit_name = <<>>
    /\ edit_x_offset = <<"0">>
    /\ edit_y_offset = <<"0">>
    /\ edit_image_path = None
    /\ edit_overlay_enabled = FALSE
    /\ process_selection = [n \in EditorProcs |-> None]
    /\ status_message = "welcome"
    /\ status_parts = <<>>
    /\ active_profile_name = None
    /\ overlay_handle = None
    /\ focus = "names"
    /\ EditorTrayIdle

\* the sequences that list each element of the set S once
Orderings(S) ==
    {q \in [1..Cardinality(S) -> S] : \A i, j \in DOMAIN q : q[i] = q[j] => i = j}

\* gui/mod.rs:306-312: the selected names, in the HashMap's iteration order.
\* process_selection[n] is None while the map has no entry for n.
get_selected_processes ==
    Orderings({n \in DOMAIN process_selection : process_selection[n] = Some(TRUE)})

\* gui/mod.rs:259-270, save_profiles_to_disk: the file and the status after it
save_profiles_to_disk(ps, st, io) ==
    IF data_dir = None THEN [disk |-> disk, status |-> st]
    ELSE LET r == save_profiles(ps, disk, io)
         IN  [disk |-> r.disk,
              status |-> IF r.result.ok THEN "saved" ELSE "save_failed"]

\* gui/mod.rs:407-433, update_live_overlay: the handle and the status after it,
\* for each result start_overlay can give
update_live_overlay(x_str, y_str, st) ==
    IF overlay_handle = None THEN {[handle |-> None, status |-> st]}
    ELSE IF edit_overlay_enabled /\ edit_image_path # None
    THEN {[handle |-> Some([image_path |-> edit_image_path[1],
                            x_offset |-> unwrap_or(parse_i32(x_str), 0),
                            y_offset |-> unwrap_or(parse_i32(y_str), 0)]),
           status |-> st],
          [handle |-> None, status |-> "crosshair_error"]}
    ELSE {[handle |-> None, status |-> st]}

formVars == <<edit_name, edit_x_offset, edit_y_offset, edit_image_path,
              edit_overlay_enabled, process_selection, selected_profile_index>>
\* what the handlers of the form leave as it is
\* the histories and the marks of the polling of the tray menu
pollVars == <<clicked, taken, ticks, editor_running>>
fixedVars == <<data_dir, focus, files, status_parts, tray_icon, menu_events,
               pollVars>>

\* gui/mod.rs:517-519
ProfileNameChanged ==
    \E name \in NameInputs :
        /\ edit_name' = name
        /\ UNCHANGED <<profiles, selected_profile_index, edit_x_offset,
                       edit_y_offset, edit_image_path, edit_overlay_enabled,
                       process_selection, status_message, active_profile_name,
                       overlay_handle, disk, fixedVars>>

\* gui/mod.rs:521-524 and 288-304, load_profile_to_edit
ProfileSelected ==
    \E index \in 0..(Len(profiles) - 1) :
        LET profile == profiles[index + 1]
        IN  /\ edit_name' = profile.name
            /\ edit_x_offset' = to_string(profile.crosshair_x_offset)
            /\ edit_y_offset' = to_string(profile.crosshair_y_offset)
            /\ edit_image_path' = profile.crosshair_image_path
            /\ edit_overlay_enabled' = profile.overlay_enabled
            /\ process_selection' =
                   [n \in EditorProcs |->
                       IF n \in Range(profile.processes_to_kill)
                       THEN Some(TRUE) ELSE None]
            /\ selected_profile_index' = Some(index)
            /\ status_message' = "editing"
            /\ UNCHANGED <<profiles, active_profile_name, overlay_handle, disk,
                           fixedVars>>

\* gui/mod.rs:277-286, clear_edit_form
FormCleared ==
    /\ edit_name' = <<>>
    /\ edit_x_offset' = <<"0">>
    /\ edit_y_offset' = <<"0">>
    /\ edit_image_path' = None
    /\ edit_overlay_enabled' = FALSE
    /\ process_selection' = [n \in EditorProcs |-> None]
    /\ selected_profile_index' = None

\* gui/mod.rs:526-529
NewProfile ==
    /\ FormCleared
    /\ status_message' = "creating"
    /\ UNCHANGED <<profiles, active_profile_name, overlay_handle, disk,
                   fixedVars>>

\* gui/mod.rs:531-534: an empty name is refused with a status message
SaveProfileRefused ==
    /\ trim(edit_name) = <<>>
    /\ status_message' = "name_empty"
    /\ UNCHANGED <<profiles, formVars, active_profile_name, overlay_handle,
                   disk, fixedVars>>

\* gui/mod.rs:537-560: the form becomes a profile, replaces the selected one or
\* is pushed, the list is written to disk and the tray is rebuilt
SaveProfileStored ==
    /\ focus \in ListFoci
    /\ trim(edit_name) # <<>>
    /\ \E io \in EditorSaveOutcomes, selected \in get_selected_processes :
        LET x_offset == unwrap_or(parse_i32(edit_x_offset), 0)
            y_offset == unwrap_or(parse_i32(edit_y_offset), 0)
            profile == [name |-> edit_name,
                        processes_to_kill |-> selected,
                        crosshair_image_path |-> edit_image_path,
                        crosshair_x_offset |-> x_offset,
                        crosshair_y_offset |-> y_offset,
                        overlay_enabled |-> edit_overlay_enabled]
            updating == selected_profile_index # None
            ps == IF updating
                  THEN [profiles EXCEPT ![selected_profile_index[1] + 1] = profile]
                  ELSE Append(profiles, profile)
            r == save_profiles_to_disk(
                     ps, IF updating THEN "updated" ELSE "created", io)
        IN  /\ updating \/ Len(profiles) < MaxProfiles
            /\ profiles' = ps
            /\ selected_profile_index' =
                   IF updating THEN selected_profile_index ELSE Some(Len(ps) - 1)
            /\ disk' = r.disk
            /\ status_message' = r.status
            /\ update_tray(ps, active_profile_name, menu_events)
    /\ UNCHANGED <<edit_name, edit_x_offset, edit_y_offset, edit_image_path,
                   edit_overlay_enabled, process_selection,
                   active_profile_name, overlay_handle, data_dir, focus, files,
                   status_parts, pollVars>>

\* gui/mod.rs:531-561, Message::SaveProfile
SaveProfile ==
    \/ SaveProfileRefused
    \/ SaveProfileStored

\* the profiles without the one at index (from 0); Vec::remove
remove(ps, index) ==
    [i \in 1..(Len(ps) - 1) |-> IF i <= index THEN ps[i] ELSE ps[i + 1]]

\* gui/mod.rs:563-572 with clear_edit_form left out
DeleteProfile_keeps_selection ==
    /\ focus \in ListFoci
    /\ selected_profile_index # None
    /\ \E io \in EditorSaveOutcomes :
        LET ps == remove(profiles, selected_profile_index[1])
            r == save_profiles_to_disk(ps, status_message, io)
        IN  /\ profiles' = ps
            /\ disk' = r.disk
            /\ update_tray(ps, active_profile_name, menu_events)
    /\ status_message' = "deleted"
    /\ UNCHANGED <<formVars, active_profile_name, overlay_handle, data_dir,
                   focus, files, status_parts, pollVars>>

\* gui/mod.rs:563-572, Message::DeleteProfile
DeleteProfile ==
    /\ focus \in ListFoci
    /\ selected_profile_index # None
    /\ \E io \in EditorSaveOutcomes :
        LET ps == remove(profiles, selected_profile_index[1])
            r == save_profiles_to_disk(ps, status_message, io)
        IN  /\ profiles' = ps
            /\ disk' = r.disk
            /\ update_tray(ps, active_profile_name, menu_events)
    /\ FormCleared
    /\ status_message' = "deleted"
    /\ UNCHANGED <<active_profile_name, overlay_handle, data_dir, focus, files,
                   status_parts, pollVars>>

\* gui/mod.rs:578-580
ProcessToggled ==
    /\ focus = "processes"
    /\ \E process \in EditorProcs, enabled \in BOOLEAN :
        process_selection' = [process_selection EXCEPT ![process] = Some(enabled)]
    /\ UNCHANGED <<profiles, selected_profile_index, edit_name, edit_x_offset,
                   edit_y_offset, edit_image_path, edit_overlay_enabled,
                   status_message, active_profile_name, overlay_handle, disk,
                   fixedVars>>

\* gui/mod.rs:591-593
CrosshairOffsetXChanged ==
    /\ focus = "x_offset"
    /\ \E value \in XInputs : edit_x_offset' = value
    /\ UNCHANGED <<profiles, selected_profile_index, edit_name, edit_y_offset,
                   edit_image_path, edit_overlay_enabled, process_selection,
                   status_message, active_profile_name, overlay_handle, disk,
                   fixedVars>>

\* gui/mod.rs:595-597
CrosshairOffsetYChanged ==
    /\ focus = "y_offset"
    /\ \E value \in YInputs : edit_y_offset' = value
    /\ UNCHANGED <<profiles, selected_profile_index, edit_name, edit_x_offset,
                   edit_image_path, edit_overlay_enabled, process_selection,
                   status_message, active_profile_name, overlay_handle, disk,
                   fixedVars>>

\* the offsets the arrow buttons are followed to
NudgeRange == (0 - MaxNudge)..MaxNudge

\* gui/mod.rs:599-609: the y offset moved by d, then update_live_overlay
MoveY(d) ==
    /\ focus \in YFoci
    /\ LET current == unwrap_or(parse_i32(edit_y_offset), 0)
       IN  /\ current + d \in NudgeRange
           /\ edit_y_offset' = to_string(current + d)
           /\ \E r \in update_live_overlay(edit_x_offset, edit_y_offset',
                                           status_message) :
                /\ overlay_handle' = r.handle
                /\ status_message' = r.status
    /\ UNCHANGED <<profiles, selected_profile_index, edit_name, edit_x_offset,
                   edit_image_path, edit_overlay_enabled, process_selection,
                   active_profile_name, disk, fixedVars>>

\* gui/mod.rs:611-621: the x offset moved by d, then update_live_overlay
MoveX(d) ==
    /\ focus \in XFoci
    /\ LET current == unwrap_or(parse_i32(edit_x_offset), 0)
       IN  /\ current + d \in NudgeRange
           /\ edit_x_offset' = to_string(current + d)
           /\ \E r \in update_live_overlay(edit_x_offset', edit_y_offset,
                                           status_message) :
                /\ overlay_handle' = r.handle
                /\ status_message' = r.status
    /\ UNCHANGED <<profiles, selected_profile_index, edit_name, edit_y_offset,
                   edit_image_path, edit_overlay_enabled, process_selection,
                   active_profile_name, disk, fixedVars>>

CrosshairMoveUp == MoveY(-1)
CrosshairMoveDown == MoveY(1)
CrosshairMoveLeft == MoveX(-1)
CrosshairMoveRight == MoveX(1)

\* gui/mod.rs:623-628
CrosshairCenter ==
    /\ focus \in XFoci \cup YFoci
    /\ edit_x_offset' = <<"0">>
    /\ edit_y_offset' = <<"0">>
    /\ \E r \in update_live_overlay(<<"0">>, <<"0">>, "centered") :
        /\ overlay_handle' = r.handle
        /\ status_message' = r.status
    /\ UNCHANGED <<profiles, selected_profile_index, edit_name,
                   edit_image_path, edit_overlay_enabled, process_selection,
                   active_profile_name, disk, fixedVars>>

\* gui/mod.rs:630-632
OverlayEnabledToggled ==
    /\ focus \in ImageFoci
    /\ \E enabled \in BOOLEAN : edit_overlay_enabled' = enabled
    /\ UNCHANGED <<profiles, selected_profile_index, edit_name, edit_x_offset,
                   edit_y_offset, edit_image_path, process_selection,
                   status_message, active_profile_name, overlay_handle, disk,
                   fixedVars>>

\* image_picker::validate_crosshair_image: the file is there and holds a
\* crosshair image
validate_crosshair_image(path) == path \in files /\ path \in CrosshairImages

\* gui/mod.rs:638-654; a cancelled picker changes nothing
SelectImage ==
    /\ focus \in ImageFoci
    /\ \E path \in PickerPaths \cap files :
        IF validate_crosshair_image(path)
        THEN /\ edit_image_path' = Some(path)
             /\ status_message' = "selected_image"
        ELSE /\ status_message' = "invalid_image"
             /\ UNCHANGED edit_image_path
    /\ UNCHANGED <<profiles, selected_profile_index, edit_name, edit_x_offset,
                   edit_y_offset, edit_overlay_enabled, process_selection,
                   active_profile_name, overlay_handle, disk, fixedVars>>

\* gui/mod.rs:656-659
ClearImage ==
    /\ focus \in ImageFoci
    /\ edit_image_path' = None
    /\ status_message' = "cleared_image"
    /\ UNCHANGED <<profiles, selected_profile_index, edit_name, edit_x_offset,
                   edit_y_offset, edit_overlay_enabled, process_selection,
                   active_profile_name, overlay_handle, disk, fixedVars>>

(***************************************************************************)
(* overlay.rs: the overlay window                                          *)
(***************************************************************************)
\* the side of a crosshair image, in pixels (overlay.rs:84)
CrosshairSide == 100
\* the widths and heights of the image files of the model
Dims == {64, CrosshairSide - 1, CrosshairSide, CrosshairSide + 1}
\* a file image::open cannot decode
Undecodable == [decodes |-> FALSE, width |-> 0, height |-> 0]
Picture(w, h) == [decodes |-> TRUE, width |-> w, height |-> h]
PictureKinds == {Undecodable} \cup {Picture(w, h) : w \in Dims, h \in Dims}
\* the image files overlays are made from
OverlayPaths == {PngPath, JpgPath}

OverlayOk(v) == [ok |-> TRUE, v |-> v, err |-> <<>>]
OverlayErr(e) == [ok |-> FALSE, v |-> <<>>, err |-> e]

\* overlay.rs:85-89: the message names the dimensions found
SizeMessage(width, height) ==
    <<"size">> \o to_string(width) \o <<"x">> \o to_string(height)

\* load_crosshair_image with the height left unchecked
load_crosshair_image_width_only(path) ==
    LET img == pictures[path]
    IN  IF ~img.decodes THEN OverlayErr(<<"decode">>)
        ELSE IF img.width # CrosshairSide
        THEN OverlayErr(SizeMessage(img.width, img.height))
        ELSE OverlayOk([data |-> path, width |-> img.width, height |-> img.height])

\* overlay.rs:77-109; the pixels are named by the file they were decoded from
load_crosshair_image(path) ==
    LET img == pictures[path]
    IN  IF ~img.decodes THEN OverlayErr(<<"decode">>)
        ELSE IF img.width # CrosshairSide \/ img.height # CrosshairSide
        THEN OverlayErr(SizeMessage(img.width, img.height))
        ELSE OverlayOk([data |-> path, width |-> img.width, height |-> img.height])

\* what the window system does to one OverlayWindow::new: the window and its
\* surface are made and drawn, or one of the steps fails
WindowOutcomes == {"ok", "build_failed", "surface_failed", "render_failed"}

\* overlay.rs:25-73, OverlayWindow::new: the image is loaded before a window
\* is made
OverlayWindow_new(image_path, x_offset, y_offset, io) ==
    LET l == load_crosshair_image(image_path)
    IN  IF ~l.ok THEN l
        ELSE IF io # "ok" THEN OverlayErr(<<io>>)
        ELSE OverlayOk([crosshair_data |-> l.v.data,
                        crosshair_width |-> l.v.width,
                        crosshair_height |-> l.v.height,
                        x_offset |-> x_offset,
                        y_offset |-> y_offset,
                        is_visible |-> FALSE])

\* overlay.rs:171-176, show; a failed render leaves the window visible
OverlayWindow_show(w) == [w EXCEPT !.is_visible = TRUE]

\* overlay.rs:179-182, hide
OverlayWindow_hide(w) == [w EXCEPT !.is_visible = FALSE]

\* overlay.rs:185-201 with the offsets assigned before the image is loaded
OverlayWindow_update_offsets_first(w, image_path, x_offset, y_offset, render_ok) ==
    LET l == load_crosshair_image(image_path)
        o == [w EXCEPT !.x_offset = x_offset, !.y_offset = y_offset]
    IN  IF ~l.ok THEN [window |-> o, result |-> l]
        ELSE LET u == [o EXCEPT !.crosshair_data = l.v.data,
                                !.crosshair_width = l.v.width,
                                !.crosshair_height = l.v.height]
             IN  [window |-> u,
                  result |-> IF w.is_visible /\ ~render_ok
                             THEN OverlayErr(<<"render_failed">>)
                             ELSE OverlayOk(<<>>)]

\* overlay.rs:185-201, update: the window after the call and the result
OverlayWindow_update(w, image_path, x_offset, y_offset, render_ok) ==
    LET l == load_crosshair_image(image_path)
    IN  IF ~l.ok THEN [window |-> w, result |-> l]
        ELSE LET u == [w EXCEPT !.crosshair_data = l.v.data,
                                !.crosshair_width = l.v.width,
                                !.crosshair_height = l.v.height,
                                !.x_offset = x_offset,
                                !.y_offset = y_offset]
             IN  [window |-> u,
                  result |-> IF w.is_visible /\ ~render_ok
                             THEN OverlayErr(<<"render_failed">>)
                             ELSE OverlayOk(<<>>)]

\* the offsets overlays are made with
OverlayOffsets == {MinOffset, 0, 7}
NoOverlayCall == [op |-> "none"]

\* no overlay window, and image files that all hold a crosshair of the right
\* size
OverlayIdle ==
    /\ pictures = [p \in OverlayPaths |-> Picture(CrosshairSide, CrosshairSide)]
    /\ overlay = None
    /\ surfaces = 0
    /\ overlay_call = NoOverlayCall
    /\ overlay_result = OverlayOk(<<>>)

\* no overlay window, and image files of every kind
OverlayInit ==
    /\ pictures \in [OverlayPaths -> PictureKinds]
    /\ overlay = None
    /\ surfaces = 0
    /\ overlay_call = NoOverlayCall
    /\ overlay_result = OverlayOk(<<>>)

\* OverlayWindow::new(event_loop, image_path, x, y) by an owner that holds no
\* window
NewOverlay ==
    /\ overlay = None
    /\ \E path \in OverlayPaths, x \in OverlayOffsets, y \in OverlayOffsets,
          io \in WindowOutcomes :
        LET r == OverlayWindow_new(path, x, y, io)
        IN  /\ overlay_call' = [op |-> "new", image_path |-> path]
            /\ overlay_result' = r
            /\ overlay' = IF r.ok THEN Some(r.v) ELSE None
            /\ surfaces' = IF r.ok THEN surfaces + 1 ELSE surfaces
    /\ UNCHANGED pictures

\* overlay.update(image_path, x, y)
UpdateOverlay ==
    /\ overlay # None
    /\ \E path \in OverlayPaths, x \in OverlayOffsets, y \in OverlayOffsets,
          render_ok \in BOOLEAN :
        LET r == OverlayWindow_update(overlay[1], path, x, y, render_ok)
        IN  /\ overlay_call' = [op |-> "update", image_path |-> path]
            /\ overlay_result' = r.result
            /\ overlay' = Some(r.window)
    /\ UNCHANGED <<pictures, surfaces>>

\* overlay.show()
ShowOverlay ==
    /\ overlay # None
    /\ overlay' = Some(OverlayWindow_show(overlay[1]))
    /\ overlay_call' = [op |-> "show"]
    /\ overlay_result' = OverlayOk(<<>>)
    /\ UNCHANGED <<pictures, surfaces>>

\* overlay.hide()
HideOverlay ==
    /\ overlay # None
    /\ overlay' = Some(OverlayWindow_hide(overlay[1]))
    /\ overlay_call' = [op |-> "hide"]
    /\ overlay_result' = OverlayOk(<<>>)
    /\ UNCHANGED <<pictures, surfaces>>

\* the owner drops the window
DropOverlay ==
    /\ overlay # None
    /\ overlay' = None
    /\ surfaces' = surfaces - 1
    /\ overlay_call' = [op |-> "drop"]
    /\ overlay_result' = OverlayOk(<<>>)
    /\ UNCHANGED pictures


(***************************************************************************)
(* process.rs: kill_processes as one call                                  *)
(***************************************************************************)
\* process.rs:93-139, one pass of the outer loop: results[p] is what
\* process.kill() returns for the process p of the snapshot
kill_target(rep, target_name, snapshot, results) ==
    IF TargetBlocked(target_name)
    THEN [rep EXCEPT !.blocklist_skipped = Append(@, target_name)]
    ELSE LET matching == {p \in DOMAIN snapshot :
                              ProcessMatches(snapshot[p], target_name)}
         IN  Recorded(rep, target_name, matching # {},
                      \E p \in matching : results[p],
                      \E p \in matching : ~results[p])

RECURSIVE kill_from(_, _, _, _, _)
kill_from(names, i, rep, snapshot, results) ==
    IF i > Len(names) THEN rep
    ELSE kill_from(names, i + 1,
                   kill_target(rep, names[i], snapshot, results[i]),
                   snapshot, results)

\* process.rs:89-145
kill_processes(names, snapshot, results) ==
    kill_from(names, 1, EmptyReport, snapshot, results)

\* the results the kills of one call can have
KillResults(names, snapshot) == [DOMAIN names -> [DOMAIN snapshot -> BOOLEAN]]

(***************************************************************************)
(* main.rs: the tray application                                           *)
(***************************************************************************)
\* Bound of the tray application model: the seconds profiles.json is
\* rewritten in
MaxModified == 1

AppProfile(name, image, x, enabled) ==
    [name |-> name,
     processes_to_kill |-> <<>>,
     crosshair_image_path |-> image,
     crosshair_x_offset |-> x,
     crosshair_y_offset |-> 0,
     overlay_enabled |-> enabled]

\* a profile with a crosshair, one with its overlay disabled, one without an
\* image and one whose image has the wrong size
ProfileA == AppProfile(<<"A">>, Some(PngPath), 7, TRUE)
ProfileB == AppProfile(<<"B">>, Some(PngPath), 0, FALSE)
ProfileC == AppProfile(<<"C">>, None, 0, TRUE)
ProfileD == AppProfile(<<"D">>, Some(JpgPath), 0, TRUE)
ProfileE == AppProfile(<<"E">>, Some(PngPath), MinOffset, TRUE)
StartProfiles == <<ProfileA, ProfileB, ProfileC, ProfileD, ProfileE>>
\* the lists another program writes to profiles.json
RewrittenLists == {<<ProfileB, ProfileA>>}
\* a profiles.json that does not parse
CorruptFile == <<Tok("[")>>
\* the names the tray menu sends
AppNames == {<<"A">>, <<"B">>, <<"C">>, <<"D">>, <<"E">>, <<"Z">>}
\* what the file system does to one save_config
ConfigOutcomes == {"ok", "write_failed"}

\* config.rs:16-23
AppConfigDefault == [active_profile |-> None, overlay_visible |-> FALSE]

\* main.rs:43-86: the profiles are loaded, no profile is active and there is
\* no overlay
AppInit ==
    /\ app_profiles = StartProfiles
    /\ active_profile_index = None
    /\ config = AppConfigDefault
    /\ profiles_last_modified = Some(0)
    /\ modified = Some(0)
    /\ config_file = AppConfigDefault
    /\ app_pc = "idle"
    /\ pending_overlay = None
    /\ app_event = [kind |-> "none"]
    /\ app_log = "none"
    /\ app_running = TRUE

\* a fixed state of the tray application, for the specifications of the other
\* parts
AppIdle ==
    /\ app_profiles = <<>>
    /\ active_profile_index = None
    /\ config = AppConfigDefault
    /\ profiles_last_modified = None
    /\ modified = None
    /\ config_file = AppConfigDefault
    /\ app_pc = "idle"
    /\ pending_overlay = None
    /\ app_event = [kind |-> "none"]
    /\ app_log = "none"
    /\ app_running = TRUE

\* main.rs:38-40: the index (from 0) of the first profile of that name
find_profile_index(ps, name) ==
    LET hits == {i \in DOMAIN ps : ps[i].name = name}
    IN  IF hits = {} THEN None
        ELSE Some((CHOOSE i \in hits : \A j \in hits : i <= j) - 1)

\* main.rs:332-350: the list and the remembered time after the check
check_and_reload_profiles(io) ==
    IF modified # profiles_last_modified
    THEN LET r == load_profiles(disk, io)
         IN  IF r.ok THEN [profiles |-> r.v, last |-> modified]
             ELSE [profiles |-> app_profiles, last |-> profiles_last_modified]
    ELSE [profiles |-> app_profiles, last |-> profiles_last_modified]

\* config.rs:63-76: config.json after save_config(cfg)
save_config(cfg, io) == IF io = "ok" THEN cfg ELSE config_file

\* main.rs:113-120, MainEventsCleared: the profiles are reloaded before the
\* tray event is handled
Reloaded(io) ==
    /\ app_profiles' = check_and_reload_profiles(io).profiles
    /\ profiles_last_modified' = check_and_reload_profiles(io).last

AppReady == app_running /\ app_pc = "idle"

\* what the file system does to the load of one check, when there is one
ReloadOutcomes ==
    IF modified # profiles_last_modified THEN LoadOutcomes ELSE {"ok"}

\* main.rs:113-120 with no tray event pending
AppTick ==
    /\ AppReady
    /\ \E io \in ReloadOutcomes : Reloaded(io)
    /\ app_event' = [kind |-> "tick"]
    /\ UNCHANGED <<active_profile_index, config, modified, config_file, app_pc,
                   pending_overlay, app_log, app_running, overlayVars, report,
                   disk>>

\* main.rs:184-190: the profile is not in the list
ActivateNotFound ==
    /\ AppReady
    /\ \E name \in AppNames, io \in ReloadOutcomes :
        /\ Reloaded(io)
        /\ find_profile_index(app_profiles', name) = None
        /\ app_event' = [kind |-> "activate", name |-> name]
        /\ app_log' = "profile_not_found"
    /\ UNCHANGED <<active_profile_index, config, modified, config_file, app_pc,
                   pending_overlay, app_running, overlayVars, report, disk>>

\* main.rs:242-254: the end of activate_profile
ActivateEnd(idx, name, visible, cio) ==
    /\ active_profile_index' = Some(idx)
    /\ config' = [active_profile |-> Some(name), overlay_visible |-> visible]
    /\ config_file' = save_config(config', cio)

\* main.rs:177-255 when no window is made: the profile has no image, or its
\* overlay is disabled
ActivateWithoutOverlay ==
    /\ AppReady
    /\ \E name \in AppNames, io \in ReloadOutcomes, cio \in ConfigOutcomes :
        /\ Reloaded(io)
        /\ find_profile_index(app_profiles', name) # None
        /\ LET idx == find_profile_index(app_profiles', name)[1]
               profile == app_profiles'[idx + 1]
           IN  /\ ~(profile.crosshair_image_path # None /\ profile.overlay_enabled)
               /\ \E results \in KillResults(profile.processes_to_kill, sys) :
                      report' = kill_processes(profile.processes_to_kill, sys,
                                               results)
               /\ IF profile.crosshair_image_path # None
                  THEN /\ overlay' = overlay
                       /\ ActivateEnd(idx, name, config.overlay_visible, cio)
                  ELSE /\ overlay' = IF overlay = None THEN None
                                     ELSE Some(OverlayWindow_hide(overlay[1]))
                       /\ ActivateEnd(idx, name, FALSE, cio)
        /\ app_event' = [kind |-> "activate", name |-> name]
        /\ app_log' = "none"
    /\ UNCHANGED <<modified, app_pc, pending_overlay, app_running, pictures,
                   surfaces, overlay_call, overlay_result, disk>>

\* main.rs:177-231 when OverlayWindow::new fails: the old window is dropped
ActivateOverlayFailed ==
    /\ AppReady
    /\ \E name \in AppNames, io \in ReloadOutcomes, cio \in ConfigOutcomes,
          wio \in {"ok"} \cup (WindowOutcomes \ {"ok"}) :
        /\ Reloaded(io)
        /\ find_profile_index(app_profiles', name) # None
        /\ LET idx == find_profile_index(app_profiles', name)[1]
               profile == app_profiles'[idx + 1]
           IN  /\ profile.crosshair_image_path # None
               /\ profile.overlay_enabled
               /\ LET r == OverlayWindow_new(profile.crosshair_image_path[1],
                                             profile.crosshair_x_offset,
                                             profile.crosshair_y_offset, wio)
                  IN  /\ ~r.ok
                      /\ overlay_result' = r
               /\ overlay_call' = [op |-> "new",
                                   image_path |-> profile.crosshair_image_path[1]]
               /\ \E results \in KillResults(profile.processes_to_kill, sys) :
                      report' = kill_processes(profile.processes_to_kill, sys,
                                               results)
               /\ overlay' = None
               /\ surfaces' = IF overlay = None THEN surfaces ELSE surfaces - 1
               /\ ActivateEnd(idx, name, FALSE, cio)
        /\ app_event' = [kind |-> "activate", name |-> name]
        /\ app_log' = "overlay_failed"
    /\ UNCHANGED <<modified, app_pc, pending_overlay, app_running, pictures,
                   disk>>

\* main.rs:177-220: OverlayWindow::new has returned the new window, and
\* state.overlay still holds the window of the profile before
ActivateOverlayCreated ==
    /\ AppReady
    /\ \E name \in AppNames, io \in ReloadOutcomes :
        /\ Reloaded(io)
        /\ find_profile_index(app_profiles', name) # None
        /\ LET idx == find_profile_index(app_profiles', name)[1]
               profile == app_profiles'[idx + 1]
           IN  /\ profile.crosshair_image_path # None
               /\ profile.overlay_enabled
               /\ LET r == OverlayWindow_new(profile.crosshair_image_path[1],
                                             profile.crosshair_x_offset,
                                             profile.crosshair_y_offset, "ok")
                  IN  /\ r.ok
                      /\ overlay_result' = r
                      /\ pending_overlay' = Some(r.v)
               /\ overlay_call' = [op |-> "new",
                                   image_path |-> profile.crosshair_image_path[1]]
               /\ \E results \in KillResults(profile.processes_to_kill, sys) :
                      report' = kill_processes(profile.processes_to_kill, sys,
                                               results)
        /\ surfaces' = surfaces + 1
        /\ app_pc' = "install"
        /\ app_event' = [kind |-> "activate", name |-> name]
        /\ app_log' = "none"
    /\ UNCHANGED <<active_profile_index, config, modified, config_file,
                   app_running, pictures, overlay, disk>>

\* main.rs:221-254: the new window is shown and stored, which drops the old
\* one
ActivateOverlayInstalled ==
    /\ app_running
    /\ app_pc = "install"
    /\ overlay' = Some(OverlayWindow_show(pending_overlay[1]))
    /\ surfaces' = IF overlay = None THEN surfaces ELSE surfaces - 1
    /\ pending_overlay' = None
    /\ app_pc' = "idle"
    /\ \E cio \in ConfigOutcomes :
        ActivateEnd(find_profile_index(app_profiles, app_event.name)[1],
                    app_event.name, TRUE, cio)
    /\ UNCHANGED <<app_profiles, profiles_last_modified, modified, app_event,
                   app_log, app_running, pictures, overlay_call,
                   overlay_result, report, disk>>

\* main.rs:258-277
deactivate_profile ==
    /\ AppReady
    /\ \E io \in ReloadOutcomes, cio \in ConfigOutcomes :
        /\ Reloaded(io)
        /\ config' = [active_profile |-> None, overlay_visible |-> FALSE]
        /\ config_file' = save_config(config', cio)
    /\ overlay' = IF overlay = None THEN None
                  ELSE Some(OverlayWindow_hide(overlay[1]))
    /\ active_profile_index' = None
    /\ app_event' = [kind |-> "deactivate"]
    /\ app_log' = "none"
    /\ UNCHANGED <<modified, app_pc, pending_overlay, app_running, pictures,
                   surfaces, overlay_call, overlay_result, report, disk>>

\* main.rs:280-297
toggle_overlay ==
    /\ AppReady
    /\ \E io \in ReloadOutcomes, cio \in ConfigOutcomes :
        /\ Reloaded(io)
        /\ IF overlay = None
           THEN UNCHANGED <<overlay, config, config_file>>
           ELSE /\ overlay' = IF overlay[1].is_visible
                              THEN Some(OverlayWindow_hide(overlay[1]))
                              ELSE Some(OverlayWindow_show(overlay[1]))
                /\ config' = [config EXCEPT
                                 !.overlay_visible = ~overlay[1].is_visible]
                /\ config_file' = save_config(config', cio)
    /\ app_event' = [kind |-> "toggle"]
    /\ app_log' = "none"
    /\ UNCHANGED <<active_profile_index, modified, app_pc, pending_overlay,
                   app_running, pictures, surfaces, overlay_call,
                   overlay_result, report, disk>>

\* main.rs:300-319: the settings folder is opened, the state is as before
open_settings ==
    /\ AppReady
    /\ \E io \in ReloadOutcomes : Reloaded(io)
    /\ app_event' = [kind |-> "settings"]
    /\ app_log' = "settings_folder"
    /\ UNCHANGED <<active_profile_index, config, modified, config_file, app_pc,
                   pending_overlay, app_running, overlayVars, report, disk>>

\* main.rs:165-172, TrayEvent::Exit
AppExit ==
    /\ AppReady
    /\ \E io \in ReloadOutcomes, cio \in ConfigOutcomes :
        /\ Reloaded(io)
        /\ config_file' = save_config(config, cio)
    /\ overlay' = IF overlay = None THEN None
                  ELSE Some(OverlayWindow_hide(overlay[1]))
    /\ app_running' = FALSE
    /\ app_event' = [kind |-> "exit"]
    /\ UNCHANGED <<active_profile_index, config, modified, app_pc,
                   pending_overlay, app_log, pictures, surfaces, overlay_call,
                   overlay_result, report, disk>>

\* main.rs:98-103 with config.overlay_visible left as it is
CloseRequested_keeps_config ==
    /\ AppReady
    /\ overlay # None
    /\ overlay' = Some(OverlayWindow_hide(overlay[1]))
    /\ config' = config
    /\ \E cio \in ConfigOutcomes : config_file' = save_config(config', cio)
    /\ app_event' = [kind |-> "close_requested"]
    /\ UNCHANGED <<app_profiles, active_profile_index, profiles_last_modified,
                   modified, app_pc, pending_overlay, app_log, app_running,
                   pictures, surfaces, overlay_call, overlay_result, report,
                   disk>>

\* main.rs:98-103, WindowEvent::CloseRequested on the overlay window
CloseRequested ==
    /\ AppReady
    /\ overlay # None
    /\ overlay' = Some(OverlayWindow_hide(overlay[1]))
    /\ config' = [config EXCEPT !.overlay_visible = FALSE]
    /\ \E cio \in ConfigOutcomes : config_file' = save_config(config', cio)
    /\ app_event' = [kind |-> "close_requested"]
    /\ UNCHANGED <<app_profiles, active_profile_index, profiles_last_modified,
                   modified, app_pc, pending_overlay, app_log, app_running,
                   pictures, surfaces, overlay_call, overlay_result, report,
                   disk>>

\* another program rewrites profiles.json, within the same second or a later
\* one
RewriteProfilesFile ==
    /\ app_running
    /\ \E doc \in {to_string_pretty(ps) : ps \in RewrittenLists} \cup {CorruptFile},
          t \in {modified[1], modified[1] + 1} :
        /\ t <= MaxModified
        /\ disk' = Some(doc)
        /\ modified' = Some(t)
    /\ UNCHANGED <<app_profiles, active_profile_index, config,
                   profiles_last_modified, config_file, app_pc,
                   pending_overlay, app_event, app_log, app_running,
                   overlayVars, report>>


(***************************************************************************)
(* gui/mod.rs: activation from the editor and from its tray menu           *)
(***************************************************************************)
\* the processes running while the editor is open
EditorSys == <<<<"x">> \o DotExe>>
\* the variables of the Process Guard an activation of the editor leaves alone
editorKillFrame == <<sys, process_names, ti, pi, found_any, killed_any,
                     failed_any, attempts>>

\* what crosshair_overlay::start_overlay can return: a handle, or one of the
\* overlay errors
StartOutcomes == {"ok", "invalid_image_size", "decode_failure",
                  "surface_creation_failure"}
start_overlay(path, x_offset, y_offset, io) ==
    IF io = "ok"
    THEN OverlayOk([image_path |-> path, x_offset |-> x_offset,
                    y_offset |-> y_offset])
    ELSE OverlayErr(<<io>>)

StatusPart(part, names) == [part |-> part, names |-> names]

\* gui/mod.rs:335-345: the parts of the status the kill report gives
ReportParts(rep) ==
    (IF rep.killed # <<>> THEN <<StatusPart("killed", rep.killed)>> ELSE <<>>)
    \o (IF rep.not_found # <<>>
        THEN <<StatusPart("not_running", rep.not_found)>> ELSE <<>>)
    \o (IF rep.blocklist_skipped # <<>>
        THEN <<StatusPart("protected", rep.blocklist_skipped)>> ELSE <<>>)

\* what the mutant of C19 puts in place of Activated: an overlay that cannot
\* be started aborts the activation
Activated_aborted_by_overlay_error(index) ==
    LET profile == profiles[index + 1]
        wants == profile.overlay_enabled /\ profile.crosshair_image_path # None
    IN  \E results \in KillResults(profile.processes_to_kill, sys),
           io \in (IF wants THEN StartOutcomes ELSE {"ok"}) :
            LET rep == kill_processes(profile.processes_to_kill, sys, results)
                r == IF wants
                     THEN start_overlay(profile.crosshair_image_path[1],
                                        profile.crosshair_x_offset,
                                        profile.crosshair_y_offset, io)
                     ELSE OverlayErr(<<>>)
            IN  /\ report' = rep
                /\ active_profile_name' = IF wants /\ ~r.ok
                                          THEN active_profile_name
                                          ELSE Some(profile.name)
                /\ overlay_handle' = IF wants /\ r.ok THEN Some(r.v) ELSE None
                /\ status_parts' = ReportParts(rep) \o
                       (IF wants /\ ~r.ok
                        THEN <<StatusPart("crosshair_error", <<r.err>>)>>
                        ELSE <<>>)
                /\ status_message' = "activated"

\* gui/mod.rs:322-387, activate_current_profile for the profile at index:
\* the processes are killed, the profile becomes the active one, the live
\* overlay is stopped and a new one started if the profile asks for one
Activated(index) ==
    LET profile == profiles[index + 1]
        wants == profile.overlay_enabled /\ profile.crosshair_image_path # None
    IN  \E results \in KillResults(profile.processes_to_kill, sys),
           io \in (IF wants THEN StartOutcomes ELSE {"ok"}) :
            LET rep == kill_processes(profile.processes_to_kill, sys, results)
                r == IF wants
                     THEN start_overlay(profile.crosshair_image_path[1],
                                        profile.crosshair_x_offset,
                                        profile.crosshair_y_offset, io)
                     ELSE OverlayErr(<<>>)
                crosshair ==
                    IF ~profile.overlay_enabled THEN <<>>
                    ELSE IF profile.crosshair_image_path = None
                    THEN <<StatusPart("crosshair_no_image", <<>>)>>
                    ELSE IF r.ok THEN <<StatusPart("crosshair_on", <<>>)>>
                    ELSE <<StatusPart("crosshair_error", <<r.err>>)>>
            IN  /\ report' = rep
                /\ active_profile_name' = Some(profile.name)
                /\ overlay_handle' = IF wants /\ r.ok THEN Some(r.v) ELSE None
                /\ status_parts' = ReportParts(rep) \o crosshair
                /\ status_message' = "activated"

\* gui/mod.rs:388-390: no profile is selected
ActivateNothingSelected ==
    /\ selected_profile_index = None
    /\ status_message' = "no_selection"
    /\ UNCHANGED <<profiles, formVars, active_profile_name, overlay_handle,
                   disk, fixedVars>>

\* gui/mod.rs:574-576, Message::ActivateProfile with a profile selected
ActivateProfile ==
    /\ selected_profile_index # None
    /\ selected_profile_index[1] < Len(profiles)
    /\ Activated(selected_profile_index[1])
    /\ update_tray(profiles, active_profile_name', menu_events)
    /\ UNCHANGED <<profiles, formVars, disk, data_dir, focus, files, pollVars>>

\* gui/mod.rs:288-304, load_profile_to_edit
LoadProfileToEdit(index) ==
    LET profile == profiles[index + 1]
    IN  /\ edit_name' = profile.name
        /\ edit_x_offset' = to_string(profile.crosshair_x_offset)
        /\ edit_y_offset' = to_string(profile.crosshair_y_offset)
        /\ edit_image_path' = profile.crosshair_image_path
        /\ edit_overlay_enabled' = profile.overlay_enabled
        /\ process_selection' =
               [n \in EditorProcs |->
                   IF n \in Range(profile.processes_to_kill)
                   THEN Some(TRUE) ELSE None]
        /\ selected_profile_index' = Some(index)

\* the user clicks an item of the menu the tray icon shows: the click waits in
\* the channel of MenuEvent::receiver()
MenuClick ==
    /\ focus = "tray"
    /\ tray_icon # None
    /\ clicked < MaxClicks
    /\ \E e \in DisplayedItems(tray_icon[1]) :
        /\ menu_events' = Append(menu_events, MenuEvent(e.item, e.name, clicked + 1))
        /\ clicked' = clicked + 1
    /\ UNCHANGED <<profiles, formVars, status_message, active_profile_name,
                   overlay_handle, disk, data_dir, focus, files, status_parts,
                   tray_icon, taken, ticks, editor_running>>

\* gui/mod.rs:218-242, check_tray_events, for the click try_recv gave: the
\* message of the item whose id is the one of the click
check_tray_events(event) ==
    IF ~event.known THEN None
    ELSE IF event.item = "exit" THEN Some("TrayExit")
    ELSE IF event.item = "none" THEN Some("TrayDeactivate")
    ELSE IF event.item = "profile" THEN Some("TrayProfileSelected")
    ELSE None

\* gui/mod.rs:496-501, Message::TrayTick while no click waits
TrayTickEmpty ==
    /\ focus = "tray"
    /\ menu_events = <<>>
    /\ ticks' = 1 - ticks
    /\ UNCHANGED <<profiles, formVars, status_message, active_profile_name,
                   overlay_handle, disk, data_dir, focus, files, status_parts,
                   tray_icon, menu_events, clicked, taken, editor_running>>

\* what the tick does of the mutant of C26: try_recv gives the click that
\* came last
TrayTickTakes_last_click(message) ==
    /\ menu_events # <<>>
    /\ check_tray_events(menu_events[Len(menu_events)]) = message
    /\ taken' = Append(taken, menu_events[Len(menu_events)].click)
    /\ ticks' = 1 - ticks
    /\ UNCHANGED clicked

\* gui/mod.rs:218-220 and 496-499: try_recv gives the click that waits
\* longest, and check_tray_events makes the message of it
TrayTickTakes(message) ==
    /\ menu_events # <<>>
    /\ check_tray_events(Head(menu_events)) = message
    /\ taken' = Append(taken, Head(menu_events).click)
    /\ ticks' = 1 - ticks
    /\ UNCHANGED clicked

\* gui/mod.rs:496-501 and 218-242: the click is of an item check_tray_events
\* does not look for, or its id is of a menu that was replaced
TrayTickDropped ==
    /\ TrayTickTakes(None)
    /\ menu_events' = Tail(menu_events)
    /\ UNCHANGED <<profiles, formVars, status_message, active_profile_name,
                   overlay_handle, disk, data_dir, focus, files, status_parts,
                   tray_icon, editor_running, report>>

\* gui/mod.rs:503-505 and 314-320, a profile picked in the tray menu
TrayProfileSelected ==
    /\ TrayTickTakes(Some("TrayProfileSelected"))
    /\ LET index == find_profile_index(profiles, Head(menu_events).name)
       IN  IF index # None
           THEN /\ LoadProfileToEdit(index[1])
                /\ Activated(index[1])
                /\ update_tray(profiles, active_profile_name', Tail(menu_events))
           ELSE /\ menu_events' = Tail(menu_events)
                /\ UNCHANGED <<formVars, status_message, active_profile_name,
                               overlay_handle, status_parts, tray_icon, report>>
    /\ UNCHANGED <<profiles, disk, data_dir, focus, files, editor_running>>

\* gui/mod.rs:507-509 and 393-404, deactivate_profile
TrayDeactivate ==
    /\ TrayTickTakes(Some("TrayDeactivate"))
    /\ active_profile_name' = None
    /\ overlay_handle' = None
    /\ status_message' = "deactivated"
    /\ update_tray(profiles, None, Tail(menu_events))
    /\ UNCHANGED <<profiles, formVars, disk, data_dir, focus, files,
                   status_parts, editor_running, report>>

\* gui/mod.rs:511-515, Message::TrayExit: the tray icon is dropped and the
\* process exits
TrayExit ==
    /\ TrayTickTakes(Some("TrayExit"))
    /\ menu_events' = Tail(menu_events)
    /\ tray_icon' = None
    /\ editor_running' = FALSE
    /\ UNCHANGED <<profiles, formVars, status_message, active_profile_name,
                   overlay_handle, disk, data_dir, focus, files, status_parts,
                   report>>

(***************************************************************************)
(* ipc.rs: the bus between the editor and the tray                         *)
(***************************************************************************)
\* how many messages are sent in each direction, and selected in the flyout
MaxSends == 2

\* ipc.rs:8-18, enum GuiToTray
GuiMsg(tag, ps, active, visible) ==
    [tag |-> tag, profiles |-> ps, active |-> active, visible |-> visible]
ProfilesUpdated(ps) == GuiMsg("ProfilesUpdated", ps, None, FALSE)
ActiveProfileChanged(active) == GuiMsg("ActiveProfileChanged", <<>>, active, FALSE)
OverlayVisibilityChanged(visible) ==
    GuiMsg("OverlayVisibilityChanged", <<>>, None, visible)
Shutdown == GuiMsg("Shutdown", <<>>, None, FALSE)
\* the messages the editor publishes
GuiToTray == {ProfilesUpdated(<<ProfileB, ProfileA>>),
              ProfilesUpdated(<<>>),
              ActiveProfileChanged(Some(ProfileA.name)),
              ActiveProfileChanged(None),
              OverlayVisibilityChanged(TRUE), Shutdown}

\* ipc.rs:20-32, enum TrayToGui
TrayMsg(tag, name) == [tag |-> tag, name |-> name]
MsgActivateProfile(name) == TrayMsg("ActivateProfile", name)
MsgDeactivateProfile == TrayMsg("DeactivateProfile", <<>>)
MsgToggleOverlay == TrayMsg("ToggleOverlay", <<>>)
MsgOpenSettings == TrayMsg("OpenSettings", <<>>)
MsgExit == TrayMsg("Exit", <<>>)

\* what the mutant of C14 puts in place of send: the message goes in front of
\* the ones in the channel
send_in_front(queue, msg, receiver_alive) ==
    IF receiver_alive THEN [ok |-> TRUE, queue |-> <<msg>> \o queue]
    ELSE [ok |-> FALSE, queue |-> queue]

\* std::sync::mpsc::channel as IpcChannels::new creates it: Sender::send puts
\* the message behind the ones in the channel; it fails once the receiver is
\* dropped
send(queue, msg, receiver_alive) ==
    IF receiver_alive THEN [ok |-> TRUE, queue |-> Append(queue, msg)]
    ELSE [ok |-> FALSE, queue |-> queue]

\* Receiver::try_recv takes the message in front; the channel is Disconnected
\* once it is empty and the sender is dropped
try_recv(queue, sender_alive) ==
    IF queue # <<>>
    THEN [result |-> "Ok", msg |-> <<Head(queue)>>, queue |-> Tail(queue)]
    ELSE [result |-> IF sender_alive THEN "Empty" ELSE "Disconnected",
          msg |-> <<>>, queue |-> queue]

\* the groups of inputs of a run of the tray: messages of the editor and menu
\* events; clicks on the icon, menu events and the clock; the flyout
TrayFoci == {"bus", "clicks", "flyout"}
GuiSends == IF focus = "bus" THEN GuiToTray
            ELSE IF focus = "clicks" THEN {Shutdown}
            ELSE {}

\* the id of a menu item; the items of a profiles submenu carry the number of
\* the submenu they were created for
MenuId(kind, submenu, index) == [kind |-> kind, submenu |-> submenu, index |-> index]
NoMenuEvent == MenuId("no_event", 0, 0)
\* no event taken: the last step was not an iteration of the loop, or the
\* iteration found no event
NoTrayInput == [icon |-> "none", menu |-> NoMenuEvent]

\* what the mutant of C15 puts in place of breaks: Shutdown is handled like
\* the messages that need nothing done
breaks_on_disconnect_only(r) == r.result = "Disconnected"

\* what the mutant of C16 puts in place of breaks: a disconnected channel is
\* handled like an empty one
breaks_on_shutdown_only(r) == r.result = "Ok" /\ r.msg[1].tag = "Shutdown"

\* tray.rs:259-266 and tray_flyout.rs:427-436: what from_gui.try_recv gave
\* makes the tray loop break
breaks(r) ==
    \/ r.result = "Disconnected"
    \/ (r.result = "Ok" /\ r.msg[1].tag = "Shutdown")

\* the editor's end of the bus: GuiChannels.to_tray.send
GuiSend ==
    /\ gui_end = "open"
    /\ Len(sent_to_tray) < MaxSends
    /\ \E msg \in GuiSends :
        LET r == send(gui_to_tray, msg, tray_loop # "terminated")
        IN  /\ gui_to_tray' = r.queue
            /\ sent_to_tray' = IF r.ok THEN Append(sent_to_tray, msg)
                               ELSE sent_to_tray
    /\ tray_input' = NoTrayInput
    /\ UNCHANGED <<tray_to_gui, gui_end, received_by_tray, sent_to_gui,
                   received_by_gui, tray_loop, tray, now,
                   selections, forwarder_rx>>

\* the editor's end of the bus: GuiChannels.from_tray.try_recv
GuiRecv ==
    /\ gui_end = "open"
    /\ LET r == try_recv(tray_to_gui, tray_loop # "terminated")
       IN  /\ r.result = "Ok"
           /\ tray_to_gui' = r.queue
           /\ received_by_gui' = received_by_gui \o r.msg
    /\ tray_input' = NoTrayInput
    /\ UNCHANGED <<gui_to_tray, gui_end, sent_to_tray, received_by_tray,
                   sent_to_gui, tray_loop, tray, now, selections,
                   forwarder_rx>>

\* the editor's end of the bus is dropped
GuiDrop ==
    /\ gui_end = "open"
    /\ focus # "flyout"
    /\ gui_end' = "dropped"
    /\ tray_input' = NoTrayInput
    /\ UNCHANGED <<gui_to_tray, tray_to_gui, sent_to_tray, received_by_tray,
                   sent_to_gui, received_by_gui, tray_loop, tray, now, selections, forwarder_rx>>

(***************************************************************************)
(* tray.rs: TrayManager and run_tray_thread                                *)
(***************************************************************************)
OverlayToggleId == MenuId("overlay_toggle", 0, 0)
SettingsId == MenuId("settings", 0, 0)
ExitId == MenuId("exit", 0, 0)

\* the profiles the tray is started with
InitialProfiles == <<ProfileA>>

\* tray.rs:96-139, populate_profile_submenu: the names of the profile items in
\* the order of their ids, and whether there is a "(None)" item
populate_profile_submenu(ps) ==
    [profile_items |-> [i \in 1..Len(ps) |-> ps[i].name],
     none_item_id |-> ps # <<>>]

\* tray.rs:34-93, TrayManager::new, with the locals of run_tray_thread. menu
\* is the menu given to the tray icon: the number of the submenu appended to
\* it (tray.rs:49-52), the labels of its profile items and whether it has a
\* "(None)" item.
TrayManager_new(ps, active) ==
    [profiles |-> ps,
     current_active |-> active,
     menu |-> [submenu |-> 0,
               items |-> [i \in 1..Len(ps) |->
                             [name |-> ps[i].name,
                              checked |-> active = Some(ps[i].name)]],
               none |-> ps # <<>>],
     submenu |-> 0,
     profile_items |-> populate_profile_submenu(ps).profile_items,
     none_item_id |-> populate_profile_submenu(ps).none_item_id,
     overlay_enabled |-> active # None,
     overlay_visible |-> FALSE,
     tooltip |-> None]

\* the ids of the items of the menu attached to the tray icon, which the
\* user can click
MenuClicks ==
    {MenuId("profile", tray.menu.submenu, i) : i \in DOMAIN tray.menu.items}
    \cup (IF tray.menu.none THEN {MenuId("none", tray.menu.submenu, 1)} ELSE {})
    \cup {OverlayToggleId, SettingsId, ExitId}

\* tray.rs:193-224, handle_menu_event
handle_menu_event(t, event_id) ==
    IF /\ event_id.kind = "profile"
       /\ event_id.submenu = t.submenu
       /\ event_id.index \in 1..Len(t.profile_items)
    THEN Some(MsgActivateProfile(t.profile_items[event_id.index]))
    ELSE IF t.none_item_id /\ event_id = MenuId("none", t.submenu, 1)
    THEN Some(MsgDeactivateProfile)
    ELSE IF event_id = OverlayToggleId THEN Some(MsgToggleOverlay)
    ELSE IF event_id = SettingsId THEN Some(MsgOpenSettings)
    ELSE IF event_id = ExitId THEN Some(MsgExit)
    ELSE None

\* what the mutant of C25 puts in place of TrayHandled: ActiveProfileChanged
\* sets the tooltip only
TrayHandled_keeps_active(t, msg) ==
    IF msg.tag = "ProfilesUpdated"
    THEN [t EXCEPT !.profiles = msg.profiles,
                   !.submenu = t.submenu + 1,
                   !.profile_items =
                       populate_profile_submenu(msg.profiles).profile_items,
                   !.none_item_id =
                       populate_profile_submenu(msg.profiles).none_item_id]
    ELSE IF msg.tag = "ActiveProfileChanged"
    THEN [t EXCEPT !.tooltip = msg.active]
    ELSE IF msg.tag = "OverlayVisibilityChanged"
    THEN [t EXCEPT !.overlay_enabled = t.current_active # None,
                   !.overlay_visible = msg.visible]
    ELSE t

\* tray.rs:243-266, the message from the editor handled by run_tray_thread.
\* update_profiles (142-153) stores a new submenu and its ids in the manager
\* and set_active_profile (156-167) sets the tooltip: neither appends to the
\* menu of the tray icon nor changes a label of it.
TrayHandled(t, msg) ==
    IF msg.tag = "ProfilesUpdated"
    THEN [t EXCEPT !.profiles = msg.profiles,
                   !.submenu = t.submenu + 1,
                   !.profile_items =
                       populate_profile_submenu(msg.profiles).profile_items,
                   !.none_item_id =
                       populate_profile_submenu(msg.profiles).none_item_id]
    ELSE IF msg.tag = "ActiveProfileChanged"
    THEN [t EXCEPT !.current_active = msg.active, !.tooltip = msg.active]
    ELSE IF msg.tag = "OverlayVisibilityChanged"
    THEN [t EXCEPT !.overlay_enabled = t.current_active # None,
                   !.overlay_visible = msg.visible]
    ELSE t

\* tray.rs:241-282, one iteration of the loop of run_tray_thread
RunTrayThread ==
    /\ tray_loop = "run_tray_thread"
    /\ \E event_id \in MenuClicks \cup {NoMenuEvent} :
        LET r == try_recv(gui_to_tray, gui_end = "open")
            got == r.result = "Ok"
            stop == breaks(r)
            t == IF got THEN TrayHandled(tray, r.msg[1]) ELSE tray
            event == IF stop \/ event_id = NoMenuEvent THEN None
                     ELSE handle_menu_event(t, event_id)
            s == IF event = None THEN [ok |-> TRUE, queue |-> tray_to_gui]
                 ELSE send(tray_to_gui, event[1], gui_end = "open")
        IN  /\ event # None => Len(sent_to_gui) < MaxSends
            /\ gui_to_tray' = r.queue
            /\ received_by_tray' = received_by_tray \o r.msg
            /\ tray' = t
            /\ tray_to_gui' = s.queue
            /\ sent_to_gui' = IF event # None /\ s.ok
                              THEN Append(sent_to_gui, event[1])
                              ELSE sent_to_gui
            /\ tray_loop' = IF stop \/ ~s.ok \/ event = Some(MsgExit)
                            THEN "terminated" ELSE tray_loop
            /\ tray_input' = [icon |-> "none",
                              menu |-> IF stop THEN NoMenuEvent ELSE event_id]
    /\ UNCHANGED <<gui_end, sent_to_tray, received_by_gui, now, selections,
                   forwarder_rx>>

(***************************************************************************)
(* tray_flyout.rs: TrayFlyoutManager and run_tray_flyout_thread            *)
(***************************************************************************)
\* tray_flyout.rs:340, the window of a double click, in milliseconds
DoubleClickMs == 500
\* the clock stops here
MaxClock == 1000
\* how long the loop may take from one reading of the clock to the next
Delays == {DoubleClickMs \div 2, DoubleClickMs - 1, DoubleClickMs}

IconEvents == {"none", "LeftUp", "other"}
FlyoutMenuIds == {"settings", "docs", "bug_report", "exit"}
IconInputs == IF focus = "bus" THEN {"none"}
              ELSE IF focus = "clicks" THEN IconEvents
              ELSE {"none", "LeftUp"}
FlyoutMenuInputs == IF focus = "flyout" THEN {"none"}
                    ELSE FlyoutMenuIds \cup {"none"}

\* tray_flyout.rs:85-181, TrayFlyoutManager::new
TrayFlyoutManager_new(ps, active) ==
    [flyout |-> None,
     profiles |-> ps,
     active_profile |-> active,
     last_click_time |-> None,
     pending_single_click |-> FALSE]

\* flyout::FlyoutWindow::new and update_profiles: the window lists the
\* profiles and the active one
FlyoutWindow(t) == [profiles |-> t.profiles, active_profile |-> t.active_profile]

\* tray_flyout.rs:184-243, show_flyout and hide_flyout on a confirmed single
\* click
ToggleFlyout(t, show_ok) ==
    IF t.flyout # None THEN [t EXCEPT !.flyout = None]
    ELSE IF show_ok THEN [t EXCEPT !.flyout = Some(FlyoutWindow(t))]
    ELSE [t EXCEPT !.flyout = None]

\* tray_flyout.rs:257-271 and 414-429, the message from the editor handled by
\* run_tray_flyout_thread
FlyoutHandled(t, msg) ==
    LET u == IF msg.tag = "ProfilesUpdated"
             THEN [t EXCEPT !.profiles = msg.profiles]
             ELSE IF msg.tag = "ActiveProfileChanged"
             THEN [t EXCEPT !.active_profile = msg.active]
             ELSE t
    IN  IF u.flyout # None /\ msg.tag \in {"ProfilesUpdated", "ActiveProfileChanged"}
        THEN [u EXCEPT !.flyout = Some(FlyoutWindow(u))]
        ELSE u

\* what the mutant of C17 puts in place of FlyoutDoubleClick: the time of the
\* first click is kept
FlyoutDoubleClick_keeps_click_time ==
    /\ tray_loop = "run_tray_flyout_thread"
    /\ tray.last_click_time # None
    /\ now - tray.last_click_time[1] < DoubleClickMs
    /\ Len(sent_to_gui) < MaxSends
    /\ LET s == send(tray_to_gui, MsgOpenSettings, gui_end = "open")
       IN  /\ tray_to_gui' = s.queue
           /\ sent_to_gui' = IF s.ok THEN Append(sent_to_gui, MsgOpenSettings)
                             ELSE sent_to_gui
    /\ tray' = [tray EXCEPT !.pending_single_click = FALSE]
    /\ tray_input' = [icon |-> "LeftUp", menu |-> NoMenuEvent]
    /\ UNCHANGED <<gui_to_tray, gui_end, sent_to_tray, received_by_tray,
                   received_by_gui, tray_loop, now, selections, forwarder_rx>>

\* tray_flyout.rs:336-349, the second click of a double click: the iteration
\* ends at `continue`
FlyoutDoubleClick ==
    /\ tray_loop = "run_tray_flyout_thread"
    /\ tray.last_click_time # None
    /\ now - tray.last_click_time[1] < DoubleClickMs
    /\ Len(sent_to_gui) < MaxSends
    /\ LET s == send(tray_to_gui, MsgOpenSettings, gui_end = "open")
       IN  /\ tray_to_gui' = s.queue
           /\ sent_to_gui' = IF s.ok THEN Append(sent_to_gui, MsgOpenSettings)
                             ELSE sent_to_gui
    /\ tray' = [tray EXCEPT !.pending_single_click = FALSE,
                            !.last_click_time = None]
    /\ tray_input' = [icon |-> "LeftUp", menu |-> NoMenuEvent]
    /\ UNCHANGED <<gui_to_tray, gui_end, sent_to_tray, received_by_tray,
                   received_by_gui, tray_loop, now, selections, forwarder_rx>>

\* what the mutant of C23 puts in place of flyout_menu_event: Documentation
\* sends a message too
flyout_menu_event_docs_sends(menu) ==
    IF menu \in {"settings", "docs"} THEN Some(MsgOpenSettings)
    ELSE IF menu = "exit" THEN Some(MsgExit)
    ELSE None

\* tray_flyout.rs:385-411: the message sent for an event of the context menu;
\* Documentation and Report Bug open a page and send none
flyout_menu_event(menu) ==
    IF menu = "settings" THEN Some(MsgOpenSettings)
    ELSE IF menu = "exit" THEN Some(MsgExit)
    ELSE None

\* tray_flyout.rs:320-440, an iteration of the loop of run_tray_flyout_thread
\* that runs to its end or to a break
FlyoutIteration ==
    /\ tray_loop = "run_tray_flyout_thread"
    /\ \E icon \in IconInputs, menu \in FlyoutMenuInputs, show_ok \in BOOLEAN :
        LET click == icon = "LeftUp"
            t1 == IF click
                  THEN [tray EXCEPT !.last_click_time = Some(now),
                                    !.pending_single_click = TRUE]
                  ELSE tray
            expired == /\ t1.pending_single_click
                       /\ t1.last_click_time # None
                       /\ now - t1.last_click_time[1] >= DoubleClickMs
            t2 == IF expired
                  THEN ToggleFlyout([t1 EXCEPT !.pending_single_click = FALSE],
                                    show_ok)
                  ELSE t1
            event == flyout_menu_event(menu)
            s == IF event = None THEN [ok |-> TRUE, queue |-> tray_to_gui]
                 ELSE send(tray_to_gui, event[1], gui_end = "open")
            exit == menu = "exit"
            r == IF exit
                 THEN [result |-> "Empty", msg |-> <<>>, queue |-> gui_to_tray]
                 ELSE try_recv(gui_to_tray, gui_end = "open")
            got == r.result = "Ok"
            stop == breaks(r)
        IN  /\ ~(click /\ tray.last_click_time # None
                       /\ now - tray.last_click_time[1] < DoubleClickMs)
            /\ (expired /\ t1.flyout = None) \/ show_ok
            /\ event # None => Len(sent_to_gui) < MaxSends
            /\ tray_to_gui' = s.queue
            /\ sent_to_gui' = IF event # None /\ s.ok
                              THEN Append(sent_to_gui, event[1])
                              ELSE sent_to_gui
            /\ gui_to_tray' = r.queue
            /\ received_by_tray' = received_by_tray \o r.msg
            /\ tray' = IF got THEN FlyoutHandled(t2, r.msg[1]) ELSE t2
            /\ tray_loop' = IF exit \/ stop THEN "terminated" ELSE tray_loop
            /\ tray_input' =
                   [icon |-> icon,
                    menu |-> IF menu = "none" THEN NoMenuEvent
                             ELSE MenuId(menu, 0, 0)]
    /\ UNCHANGED <<gui_end, sent_to_tray, received_by_gui, now, selections,
                   forwarder_rx>>

\* tray_flyout.rs:318-322, WM_QUIT in the message queue of the thread
WmQuit ==
    /\ tray_loop = "run_tray_flyout_thread"
    /\ tray_loop' = "terminated"
    /\ tray_input' = NoTrayInput
    /\ UNCHANGED <<gui_to_tray, tray_to_gui, gui_end, sent_to_tray,
                   received_by_tray, sent_to_gui, received_by_gui, tray, now,
                   selections, forwarder_rx>>

\* time passes between two iterations: the sleep of the loop and whatever
\* delays the thread
Elapse ==
    /\ tray_loop = "run_tray_flyout_thread"
    /\ focus # "bus"
    /\ \E d \in Delays :
        /\ now + d <= MaxClock
        /\ now' = now + d
    /\ tray_input' = NoTrayInput
    /\ UNCHANGED <<gui_to_tray, tray_to_gui, gui_end, sent_to_tray,
                   received_by_tray, sent_to_gui, received_by_gui, tray_loop,
                   tray, selections, forwarder_rx>>

\* flyout::FlyoutWindow: the user selects an entry of the open flyout, which
\* sends one TrayToGui message on the sender the window was given
FlyoutSelections(f) ==
    {MsgActivateProfile(f.profiles[i].name) : i \in 1..Len(f.profiles)}
    \cup {MsgDeactivateProfile, MsgExit}
FlyoutSelect ==
    /\ tray_loop = "run_tray_flyout_thread"
    /\ focus = "flyout"
    /\ tray.flyout # None
    /\ Len(selections) < MaxSends
    /\ \E msg \in FlyoutSelections(tray.flyout[1]) :
        /\ forwarder_rx' = send(forwarder_rx, msg, TRUE).queue
        /\ selections' = Append(selections, msg)
    /\ tray_input' = NoTrayInput
    /\ UNCHANGED <<gui_to_tray, tray_to_gui, gui_end, sent_to_tray,
                   received_by_tray, sent_to_gui, received_by_gui, tray_loop,
                   tray, now>>

\* tray_flyout.rs:50-63, the thread of create_profile_forwarder takes a
\* message; the name of an ActivateProfile goes to profile_tx, whose receiver
\* TrayFlyoutManager::new (178-181) dropped, so that send fails; every other
\* message is dropped
Forward ==
    /\ LET r == try_recv(forwarder_rx, TRUE)
       IN  /\ r.result = "Ok"
           /\ forwarder_rx' = r.queue
    /\ tray_input' = NoTrayInput
    /\ UNCHANGED <<gui_to_tray, tray_to_gui, gui_end, sent_to_tray,
                   received_by_tray, sent_to_gui, received_by_gui, tray_loop,
                   tray, now, selections>>

\* TrayManager::new or TrayFlyoutManager::new failed: the function returns
\* before its loop (tray.rs:230-236, tray_flyout.rs:285-291)
TrayNotCreated ==
    /\ tray_loop \in {"run_tray_thread", "run_tray_flyout_thread"}
    /\ tray_input = NoTrayInput
    /\ received_by_tray = <<>>
    /\ sent_to_gui = <<>>
    /\ now = 0
    /\ selections = <<>>
    /\ tray_loop' = "terminated"
    /\ UNCHANGED <<gui_to_tray, tray_to_gui, gui_end, sent_to_tray,
                   received_by_tray, sent_to_gui, received_by_gui, tray, now,
                   tray_input, selections, forwarder_rx>>

\* the bus and the tray before IpcChannels::new
TrayIdle ==
    /\ gui_to_tray = <<>>
    /\ tray_to_gui = <<>>
    /\ gui_end = "open"
    /\ sent_to_tray = <<>>
    /\ received_by_tray = <<>>
    /\ sent_to_gui = <<>>
    /\ received_by_gui = <<>>
    /\ tray_loop = "none"
    /\ tray = TrayManager_new(<<>>, None)
    /\ now = 0
    /\ tray_input = NoTrayInput
    /\ selections = <<>>
    /\ forwarder_rx = <<>>

\* ipc.rs:38-53, IpcChannels::new, and the start of one of the tray loops
TrayInit ==
    /\ gui_to_tray = <<>>
    /\ tray_to_gui = <<>>
    /\ gui_end = "open"
    /\ sent_to_tray = <<>>
    /\ received_by_tray = <<>>
    /\ sent_to_gui = <<>>
    /\ received_by_gui = <<>>
    /\ tray_loop \in {"run_tray_thread", "run_tray_flyout_thread"}
    /\ tray = IF tray_loop = "run_tray_thread"
              THEN TrayManager_new(InitialProfiles, None)
              ELSE TrayFlyoutManager_new(InitialProfiles, None)
    /\ now = 0
    /\ tray_input = NoTrayInput
    /\ selections = <<>>
    /\ forwarder_rx = <<>>

(***************************************************************************)
(* overlay.rs: render, and the frames one overlay window presents          *)
(*                                                                         *)
(* render reads crosshair_width and crosshair_height of the window, never  *)
(* the side load_crosshair_image asks for, so its loops are followed on    *)
(* images and windows of a few pixels.                                     *)
(***************************************************************************)
\* overlay.rs:132, a fully transparent pixel
Transparent == 0
\* a pixel of whatever buffer_mut hands out before it is filled
Stale == 9
\* the longest side of an image
MaxSide == 2
\* the longest side of the window
MaxSurface == 3

\* whether a + b leaves the i32 range
overflows(a, b) == IF b > 0 THEN a > I32Max - b ELSE a < I32Min - b

\* a + b of two i32 in a build without overflow checks
wrapping_add(a, b) ==
    IF ~overflows(a, b) THEN a + b
    ELSE IF b > 0 THEN ((a - I32Max) + (b - 1)) + I32Min
    ELSE ((a - I32Min) + (b + 1)) + I32Max

\* the pixels of an image of width x height, each of its own colour
Image(width, height) ==
    [data |-> [k \in 1..(width * height) |-> k], width |-> width,
     height |-> height]
\* the images load_crosshair_image hands to the window
RenderImages == {Image(MaxSide, MaxSide), Image(1, MaxSide)}
\* the offsets the window is given
RenderOffsets == {-1, 0, I32Max}
\* the sizes the window system gives the window
RenderSizes == {0, MaxSurface - 1, MaxSurface} \X {0, MaxSurface}
\* what the surface does during one render
RenderOutcomes == {"ok", "buffer_failed", "present_failed"}

\* overlay.rs:131-133: every pixel of the buffer is made transparent
clear(buffer) == [i \in 1..Len(buffer) |-> Transparent]

\* overlay.rs:141-155: the two loops, at source pixel k = y * width + x
RECURSIVE blit(_, _, _, _, _, _, _)
blit(buffer, w, width, height, crosshair_x, crosshair_y, k) ==
    IF k = w.crosshair_width * w.crosshair_height
    THEN [panic |-> FALSE, buffer |-> buffer]
    ELSE LET y == k \div w.crosshair_width
             x == k % w.crosshair_width
             src_idx == y * w.crosshair_width + x
         IN  IF overflow_checks
                /\ (overflows(crosshair_x, x) \/ overflows(crosshair_y, y))
             THEN [panic |-> TRUE, buffer |-> buffer]
             ELSE LET dst_x == wrapping_add(crosshair_x, x)
                      dst_y == wrapping_add(crosshair_y, y)
                      dst_idx == dst_y * width + dst_x
                  IN  IF /\ dst_x >= 0 /\ dst_x < width
                         /\ dst_y >= 0 /\ dst_y < height
                         /\ dst_idx < Len(buffer)
                         /\ src_idx < Len(w.crosshair_data)
                      THEN blit([buffer EXCEPT ![dst_idx + 1] =
                                     w.crosshair_data[src_idx + 1]],
                                w, width, height, crosshair_x, crosshair_y,
                                k + 1)
                      ELSE blit(buffer, w, width, height, crosshair_x,
                                crosshair_y, k + 1)

\* the result of a render that presented nothing
NotPresented(result, shown) ==
    [result |-> result, presented |-> FALSE, frame |-> shown]

\* overlay.rs:112-168, render: the result, whether a buffer was presented and
\* the frame the window shows afterwards
render(w, size, shown, io) ==
    LET width == size[1]
        height == size[2]
    IN  IF width = 0 \/ height = 0 THEN NotPresented("ok", shown)
        ELSE IF io = "buffer_failed" THEN NotPresented("err", shown)
        ELSE LET buffer == clear([i \in 1..(width * height) |-> Stale])
                 centre_x == (width \div 2) - (w.crosshair_width \div 2)
                 centre_y == (height \div 2) - (w.crosshair_height \div 2)
             IN  IF overflow_checks
                    /\ (overflows(centre_x, w.x_offset)
                        \/ overflows(centre_y, w.y_offset))
                 THEN NotPresented("panic", shown)
                 ELSE LET b == blit(buffer, w, width, height,
                                    wrapping_add(centre_x, w.x_offset),
                                    wrapping_add(centre_y, w.y_offset), 0)
                      IN  IF b.panic THEN NotPresented("panic", shown)
                          ELSE IF io = "present_failed"
                          THEN NotPresented("err", shown)
                          ELSE [result |-> "ok", presented |-> TRUE,
                                frame |-> Some([width |-> width,
                                                height |-> height,
                                                pixels |-> b.buffer])]

\* what is recorded of one call on the window
RenderCall(op, r) == [op |-> op, result |-> r.result, presented |-> r.presented]

\* a window that is never drawn
RenderIdle ==
    /\ canvas = [crosshair_data |-> <<1>>, crosshair_width |-> 1,
                 crosshair_height |-> 1, x_offset |-> 0, y_offset |-> 0,
                 is_visible |-> FALSE]
    /\ inner_size = <<0, 0>>
    /\ frame = None
    /\ render_call = [op |-> "none", result |-> "ok", presented |-> FALSE]
    /\ overflow_checks = FALSE

\* overlay.rs:25-73: the window OverlayWindow::new returned, hidden and drawn
\* once
RenderInit ==
    /\ overflow_checks \in BOOLEAN
    /\ inner_size \in RenderSizes
    /\ \E image \in RenderImages :
          canvas = [crosshair_data |-> image.data,
                    crosshair_width |-> image.width,
                    crosshair_height |-> image.height,
                    x_offset |-> 0, y_offset |-> 0, is_visible |-> FALSE]
    /\ frame = render(canvas, inner_size, None, "ok").frame
    /\ render_call = [op |-> "new", result |-> "ok",
                      presented |-> frame # None]

\* the process is alive: no render has panicked
Rendering == render_call.result # "panic"

\* overlay.rs:171-176, overlay.show()
OverlayShow ==
    /\ Rendering
    /\ \E io \in RenderOutcomes :
        LET r == render(OverlayWindow_show(canvas), inner_size, frame, io)
        IN  /\ canvas' = OverlayWindow_show(canvas)
            /\ frame' = r.frame
            /\ render_call' = RenderCall("show", r)
    /\ UNCHANGED <<inner_size, overflow_checks>>

\* overlay.rs:179-182, overlay.hide()
OverlayHide ==
    /\ Rendering
    /\ canvas' = OverlayWindow_hide(canvas)
    /\ render_call' = [op |-> "hide", result |-> "ok", presented |-> FALSE]
    /\ UNCHANGED <<inner_size, frame, overflow_checks>>

\* overlay.rs:185-201 with the test of is_visible left out
update_always_renders(w, image, x_offset, y_offset, io) ==
    LET u == [w EXCEPT !.crosshair_data = image.data,
                       !.crosshair_width = image.width,
                       !.crosshair_height = image.height,
                       !.x_offset = x_offset,
                       !.y_offset = y_offset]
    IN  [window |-> u, r |-> render(u, inner_size, frame, io)]

\* overlay.rs:187-201, update once the image is loaded: the window and what
\* the render did
update(w, image, x_offset, y_offset, io) ==
    LET u == [w EXCEPT !.crosshair_data = image.data,
                       !.crosshair_width = image.width,
                       !.crosshair_height = image.height,
                       !.x_offset = x_offset,
                       !.y_offset = y_offset]
    IN  [window |-> u,
         r |-> IF w.is_visible THEN render(u, inner_size, frame, io)
               ELSE NotPresented("ok", frame)]

\* overlay.update(image_path, x, y) with an image that loads
OverlayUpdate ==
    /\ Rendering
    /\ \E image \in RenderImages, x \in RenderOffsets, y \in RenderOffsets,
          io \in RenderOutcomes :
        LET u == update(canvas, image, x, y, io)
        IN  /\ canvas' = u.window
            /\ frame' = u.r.frame
            /\ render_call' = RenderCall("update", u.r)
    /\ UNCHANGED <<inner_size, overflow_checks>>

\* overlay.rs:187, overlay.update(image_path, x, y) with an image that does
\* not load
OverlayUpdateFailed ==
    /\ Rendering
    /\ render_call' = [op |-> "update", result |-> "err", presented |-> FALSE]
    /\ UNCHANGED <<canvas, inner_size, frame, overflow_checks>>

\* overlay.rs:214-219 without the render
on_resize_ignored(w, new_size, io) == NotPresented("ok", frame)

\* overlay.rs:214-219, on_resize
on_resize(w, new_size, io) ==
    IF new_size[1] > 0 /\ new_size[2] > 0 /\ w.is_visible
    THEN render(w, inner_size', frame, io)
    ELSE NotPresented("ok", frame)

\* main.rs:104-106: the window system gives the window a new size and the
\* event loop hands WindowEvent::Resized to the overlay
OverlayResized ==
    /\ Rendering
    /\ \E new_size \in RenderSizes \ {inner_size}, io \in RenderOutcomes :
        /\ inner_size' = new_size
        /\ LET r == on_resize(canvas, new_size, io)
           IN  /\ frame' = r.frame
               /\ render_call' = RenderCall("resize", r)
    /\ UNCHANGED <<canvas, overflow_checks>>

(***************************************************************************)
(* Specifications                                                          *)
(***************************************************************************)
\* a fixed state of the overlay, the tray application and the bus
RestIdle == OverlayIdle /\ RenderIdle /\ AppIdle /\ TrayIdle

\* one call of kill_processes, on every snapshot and target list of the bounds
InitKill == KillInit /\ StoreInit /\ FsInit /\ EditorIdle /\ RestIdle
NextKill ==
    \/ SkipProtected /\ UNCHANGED <<storeVars, fsVars, editorVars, restVars>>
    \/ KillOne /\ UNCHANGED <<storeVars, fsVars, editorVars, restVars>>
    \/ RecordResult /\ UNCHANGED <<storeVars, fsVars, editorVars, restVars>>
SpecKill == InitKill /\ [][NextKill]_vars

\* validate and is_profile_name_unique, called again and again
InitProfile == KillIdle /\ StoreInit /\ FsInit /\ EditorIdle /\ RestIdle
NextProfile ==
    \/ ValidateCall /\ UNCHANGED <<killVars, editorVars, restVars>>
    \/ UniqueCall /\ UNCHANGED <<killVars, editorVars, restVars>>
    \/ Return /\ UNCHANGED <<killVars, editorVars, restVars>>
    \/ CreateFile /\ UNCHANGED <<killVars, editorVars, restVars>>
    \/ DeleteFile /\ UNCHANGED <<killVars, editorVars, restVars>>
SpecProfile == InitProfile /\ [][NextProfile]_vars

\* save_profiles and load_profiles, called again and again
NextStore ==
    \/ SaveCall /\ UNCHANGED <<killVars, editorVars, restVars>>
    \/ LoadCall /\ UNCHANGED <<killVars, editorVars, restVars>>
SpecStore == InitProfile /\ [][NextStore]_vars

\* the editor handling the messages of the form
InitEditor ==
    /\ sys = EditorSys
    /\ process_names = <<>>
    /\ ti = 1
    /\ pi = 1
    /\ found_any = FALSE
    /\ killed_any = FALSE
    /\ failed_any = FALSE
    /\ report = EmptyReport
    /\ attempts = {}
    /\ StoreInit
    /\ files = PickerPaths
    /\ disk \in {None, Some(StoredFile)}
    /\ EditorInit
    /\ disk # None <=> focus \in StoredFoci
    /\ RestIdle
NextEditor ==
    \/ editor_running /\ ProfileNameChanged /\ UNCHANGED <<killVars, storeVars, restVars>>
    \/ editor_running /\ ProfileSelected /\ UNCHANGED <<killVars, storeVars, restVars>>
    \/ editor_running /\ NewProfile /\ UNCHANGED <<killVars, storeVars, restVars>>
    \/ editor_running /\ SaveProfileRefused /\ UNCHANGED <<killVars, storeVars, restVars>>
    \/ editor_running /\ SaveProfileStored /\ UNCHANGED <<killVars, storeVars, restVars>>
    \/ editor_running /\ DeleteProfile /\ UNCHANGED <<killVars, storeVars, restVars>>
    \/ editor_running /\ ProcessToggled /\ UNCHANGED <<killVars, storeVars, restVars>>
    \/ editor_running /\ CrosshairOffsetXChanged /\ UNCHANGED <<killVars, storeVars, restVars>>
    \/ editor_running /\ CrosshairOffsetYChanged /\ UNCHANGED <<killVars, storeVars, restVars>>
    \/ editor_running /\ CrosshairMoveUp /\ UNCHANGED <<killVars, storeVars, restVars>>
    \/ editor_running /\ CrosshairMoveDown /\ UNCHANGED <<killVars, storeVars, restVars>>
    \/ editor_running /\ CrosshairMoveLeft /\ UNCHANGED <<killVars, storeVars, restVars>>
    \/ editor_running /\ CrosshairMoveRight /\ UNCHANGED <<killVars, storeVars, restVars>>
    \/ editor_running /\ CrosshairCenter /\ UNCHANGED <<killVars, storeVars, restVars>>
    \/ editor_running /\ OverlayEnabledToggled /\ UNCHANGED <<killVars, storeVars, restVars>>
    \/ editor_running /\ SelectImage /\ UNCHANGED <<killVars, storeVars, restVars>>
    \/ editor_running /\ ClearImage /\ UNCHANGED <<killVars, storeVars, restVars>>
    \/ editor_running /\ ActivateNothingSelected /\ UNCHANGED <<killVars, storeVars, restVars>>
    \/ editor_running /\ ActivateProfile /\ UNCHANGED <<editorKillFrame, storeVars, restVars>>
    \/ editor_running /\ MenuClick /\ UNCHANGED <<killVars, storeVars, restVars>>
    \/ editor_running /\ TrayTickEmpty /\ UNCHANGED <<killVars, storeVars, restVars>>
    \/ editor_running /\ TrayTickDropped /\ UNCHANGED <<editorKillFrame, storeVars, restVars>>
    \/ editor_running /\ TrayProfileSelected /\ UNCHANGED <<editorKillFrame, storeVars, restVars>>
    \/ editor_running /\ TrayDeactivate /\ UNCHANGED <<editorKillFrame, storeVars, restVars>>
    \/ editor_running /\ TrayExit /\ UNCHANGED <<editorKillFrame, storeVars, restVars>>
SpecEditor == InitEditor /\ [][NextEditor]_vars

\* the calls of one overlay window, on image files of every kind
InitOverlay ==
    /\ KillIdle /\ StoreInit /\ FsInit /\ EditorIdle /\ OverlayInit /\ AppIdle
    /\ TrayIdle /\ RenderIdle
NextOverlay ==
    \/ NewOverlay /\ UNCHANGED <<killVars, storeVars, fsVars, editorVars, renderVars, appVars, trayVars>>
    \/ UpdateOverlay /\ UNCHANGED <<killVars, storeVars, fsVars, editorVars, renderVars, appVars, trayVars>>
    \/ ShowOverlay /\ UNCHANGED <<killVars, storeVars, fsVars, editorVars, renderVars, appVars, trayVars>>
    \/ HideOverlay /\ UNCHANGED <<killVars, storeVars, fsVars, editorVars, renderVars, appVars, trayVars>>
    \/ DropOverlay /\ UNCHANGED <<killVars, storeVars, fsVars, editorVars, renderVars, appVars, trayVars>>
SpecOverlay == InitOverlay /\ [][NextOverlay]_vars

\* the calls on one overlay window that was made, and the frames it presents
renderFrame == <<killVars, storeVars, fsVars, editorVars, overlayVars, appVars,
                 trayVars>>
InitRender ==
    /\ KillIdle /\ StoreInit /\ FsInit /\ EditorIdle /\ OverlayIdle /\ AppIdle
    /\ TrayIdle /\ RenderInit
NextRender ==
    \/ OverlayShow /\ UNCHANGED renderFrame
    \/ OverlayHide /\ UNCHANGED renderFrame
    \/ OverlayUpdate /\ UNCHANGED renderFrame
    \/ OverlayUpdateFailed /\ UNCHANGED renderFrame
    \/ OverlayResized /\ UNCHANGED renderFrame
SpecRender == InitRender /\ [][NextRender]_vars

\* the tray application handling tray events, window events and rewrites of
\* profiles.json
appFrame == <<sys, process_names, ti, pi, found_any, killed_any, failed_any,
              attempts, storeVars, files, editorVars, renderVars, trayVars>>
InitApp ==
    /\ KillIdle
    /\ TrayIdle
    /\ StoreInit
    /\ files = {}
    /\ disk = Some(to_string_pretty(StartProfiles))
    /\ EditorIdle
    /\ pictures = [p \in OverlayPaths |->
                      IF p = PngPath THEN Picture(CrosshairSide, CrosshairSide)
                      ELSE Picture(64, 64)]
    /\ overlay = None
    /\ surfaces = 0
    /\ overlay_call = NoOverlayCall
    /\ overlay_result = OverlayOk(<<>>)
    /\ RenderIdle
    /\ AppInit
NextApp ==
    \/ AppTick /\ UNCHANGED appFrame
    \/ ActivateNotFound /\ UNCHANGED appFrame
    \/ ActivateWithoutOverlay /\ UNCHANGED appFrame
    \/ ActivateOverlayFailed /\ UNCHANGED appFrame
    \/ ActivateOverlayCreated /\ UNCHANGED appFrame
    \/ ActivateOverlayInstalled /\ UNCHANGED appFrame
    \/ deactivate_profile /\ UNCHANGED appFrame
    \/ toggle_overlay /\ UNCHANGED appFrame
    \/ open_settings /\ UNCHANGED appFrame
    \/ AppExit /\ UNCHANGED appFrame
    \/ CloseRequested /\ UNCHANGED appFrame
    \/ RewriteProfilesFile /\ UNCHANGED appFrame
SpecApp == InitApp /\ [][NextApp]_vars

\* the bus, its two ends and one of the tray loops
trayFrame == <<killVars, storeVars, fsVars, editorVars, overlayVars, renderVars,
               appVars>>
InitTray ==
    /\ KillIdle /\ StoreInit /\ FsInit /\ OverlayIdle /\ RenderIdle /\ AppIdle
    /\ data_dir = None
    /\ profiles = <<>>
    /\ selected_profile_index = None
    /\ edit_name = <<>>
    /\ edit_x_offset = <<"0">>
    /\ edit_y_offset = <<"0">>
    /\ edit_image_path = None
    /\ edit_overlay_enabled = FALSE
    /\ process_selection = [n \in EditorProcs |-> None]
    /\ status_message = "welcome"
    /\ status_parts = <<>>
    /\ active_profile_name = None
    /\ overlay_handle = None
    /\ EditorTrayIdle
    /\ TrayInit
    /\ focus \in (IF tray_loop = "run_tray_thread" THEN {"bus"} ELSE TrayFoci)
NextTray ==
    \/ GuiSend /\ UNCHANGED trayFrame
    \/ GuiRecv /\ UNCHANGED trayFrame
    \/ GuiDrop /\ UNCHANGED trayFrame
    \/ RunTrayThread /\ UNCHANGED trayFrame
    \/ FlyoutDoubleClick /\ UNCHANGED trayFrame
    \/ FlyoutIteration /\ UNCHANGED trayFrame
    \/ WmQuit /\ UNCHANGED trayFrame
    \/ Elapse /\ UNCHANGED trayFrame
    \/ FlyoutSelect /\ UNCHANGED trayFrame
    \/ Forward /\ UNCHANGED trayFrame
    \/ TrayNotCreated /\ UNCHANGED trayFrame
SpecTray == InitTray /\ [][NextTray]_vars

\* the tray loops keep running: the thread of the loop is scheduled again
\* after each sleep
SpecTrayFair ==
    /\ InitTray
    /\ [][NextTray]_vars
    /\ WF_vars(RunTrayThread /\ UNCHANGED trayFrame)
    /\ WF_vars((FlyoutIteration \/ FlyoutDoubleClick) /\ UNCHANGED trayFrame)

Spec == SpecEditor

(***************************************************************************)
(* Process Guard: the claims                                               *)
(***************************************************************************)
EqualIgnoringCase(a, b) == to_lowercase(a) = to_lowercase(b)

\* the name equals, ignoring case, an entry of the protected list
ProtectedName(n) ==
    \E i \in DOMAIN PROTECTED_PROCESSES :
        EqualIgnoringCase(PROTECTED_PROCESSES[i], n)

\* the raw or the normalized form of the target matches the protected list
ProtectedTarget(t) ==
    ProtectedName(t) \/ ProtectedName(normalize_process_name(t))

KillDone == ti > Len(process_names)

\* the results of the kill calls made for target i
Outcomes(i) == {a[3] : a \in {b \in attempts : b[1] = i}}

\* the processes of the snapshot that match target i
MatchingPids(i) ==
    {pid \in DOMAIN sys : ProcessMatches(sys[pid], process_names[i])}

\* C1: no termination attempt is ever made on a running process whose name
\* equals, ignoring case, an entry of the protected list, however the target
\* is written.
C1_NoAttemptOnProtectedProcess ==
    \A a \in attempts : ~ProtectedName(sys[a[2]])

\* C2: a target whose raw or normalized form matches the protected list is
\* placed in blocklist_skipped and in no other list, and no termination is
\* attempted for it, whether or not such a process is running.
C2_ProtectedTargetOnlySkipped ==
    \A i \in DOMAIN process_names :
        LET t == process_names[i]
        IN  ProtectedTarget(t) =>
              /\ \A a \in attempts : a[1] # i
              /\ \A n \in {t, t \o PartialTag} :
                    n \notin Range(report.killed) \cup Range(report.failed)
                             \cup Range(report.not_found)
              /\ i < ti => t \in Range(report.blocklist_skipped)

\* C2 witness: the call is over, a target protected only in its normalized
\* form was given, and a process of that name is running
C2_Witness ==
    /\ KillDone
    /\ \E i \in DOMAIN process_names :
        /\ ProtectedName(normalize_process_name(process_names[i]))
        /\ ~ProtectedName(process_names[i])
        /\ MatchingPids(i) # {}
        /\ process_names[i] \in Range(report.blocklist_skipped)

RECURSIVE ExpectedReport(_)
\* the report the claim asks for once the first k targets are done: each
\* protected target skipped, each other one recorded by the outcomes of the
\* kill calls made on its matching processes
ExpectedReport(k) ==
    IF k = 0 THEN EmptyReport
    ELSE LET rep == ExpectedReport(k - 1)
             t == process_names[k]
             o == Outcomes(k)
         IN  IF ProtectedTarget(t)
             THEN [rep EXCEPT !.blocklist_skipped = Append(@, t)]
             ELSE IF MatchingPids(k) = {}
             THEN [rep EXCEPT !.not_found = Append(@, t)]
             ELSE IF o = {TRUE}
             THEN [rep EXCEPT !.killed = Append(@, t)]
             ELSE IF o = {FALSE}
             THEN [rep EXCEPT !.failed = Append(@, t)]
             ELSE [rep EXCEPT !.killed = Append(@, t \o PartialTag),
                              !.failed = Append(@, t \o PartialTag)]

\* C3: every non-protected target is recorded by the outcomes of its matching
\* processes (none: not_found only; all killed: killed only; all failed:
\* failed only; mixed: killed and failed, tagged partial), so that every
\* target appears in at least one list of the report.
C3_ReportFollowsOutcomes ==
    /\ report = ExpectedReport(ti - 1)
    /\ KillDone =>
         \A i \in DOMAIN process_names :
            \E n \in {process_names[i], process_names[i] \o PartialTag} :
                n \in Range(report.killed) \cup Range(report.failed)
                      \cup Range(report.not_found)
                      \cup Range(report.blocklist_skipped)

\* C3 witness: the call is over and one target had a mixed outcome
C3_Witness ==
    /\ KillDone
    /\ \E i \in DOMAIN process_names :
        /\ Outcomes(i) = {TRUE, FALSE}
        /\ process_names[i] \o PartialTag \in Range(report.killed)
        /\ process_names[i] \o PartialTag \in Range(report.failed)

\* C4: a failed termination stops nothing: once the call is over, a kill was
\* attempted on every process matching every non-protected target.
C4_BestEffort ==
    KillDone =>
        \A i \in DOMAIN process_names :
            ~ProtectedTarget(process_names[i]) =>
                \A pid \in MatchingPids(i) :
                    \E ok \in BOOLEAN : <<i, pid, ok>> \in attempts

\* C4 witness: a kill failed, and a kill was still attempted on a later
\* process of the same target and on a process of a later target
C4_Witness ==
    /\ KillDone
    /\ \E a, b, c \in attempts :
        /\ a[3] = FALSE
        /\ b[1] = a[1] /\ b[2] > a[2]
        /\ c[1] > a[1]

(***************************************************************************)
(* Profile Store: the claims                                               *)
(***************************************************************************)
InOffsetRange(v) == v \in MinOffset..MaxOffset

\* C5: with no crosshair image set, validate returns Ok exactly when the name
\* has between 1 and 50 characters and both offsets lie in [-500, 500].
C5_ValidateOkIffCharsInRange ==
    (call.op = "validate" /\ call.profile.crosshair_image_path = None) =>
        (ret.ok <=> /\ Len(call.profile.name) \in 1..MaxNameLen
                    /\ InOffsetRange(call.profile.crosshair_x_offset)
                    /\ InOffsetRange(call.profile.crosshair_y_offset))

\* C6: with a crosshair image path set, and a name and offsets that pass,
\* validate returns Ok exactly when the file exists on disk and its extension
\* is the recognized image extension (png); a missing file or another
\* extension is rejected.
C6_ImagePathChecked ==
    (/\ call.op = "validate"
     /\ call.profile.crosshair_image_path # None
     /\ call.profile.name # <<>>
     /\ ByteLen(call.profile.name) <= MaxNameLen
     /\ InOffsetRange(call.profile.crosshair_x_offset)
     /\ InOffsetRange(call.profile.crosshair_y_offset)) =>
        (ret.ok <=> /\ call.profile.crosshair_image_path[1] \in files
                    /\ extension(call.profile.crosshair_image_path[1])
                           = Some(<<"p", "n", "g">>))

\* C6 witness: validate accepted a profile whose image file exists, while
\* another file with a png extension does not exist
C6_Witness ==
    /\ call.op = "validate"
    /\ call.profile.crosshair_image_path = Some(PngPath)
    /\ PngPath \in files
    /\ files # Paths
    /\ ret.ok

C8_SaveLoadRoundTrip ==
    saved # None =>
        /\ load_profiles(disk, "ok") = [ok |-> TRUE, v |-> saved[1], err |-> "none"]
        /\ (call.op = "load" /\ call.io = "ok") => (ret.ok /\ ret.v = saved[1])

\* C8 witness: a load returned the two profiles of the last save, one without
\* and one with a crosshair image
C8_Witness ==
    /\ call.op = "load"
    /\ ret.ok
    /\ saved = Some(ret.v)
    /\ Len(ret.v) = 2
    /\ ret.v[1].crosshair_image_path = None
    /\ ret.v[2].crosshair_image_path # None

(***************************************************************************)
(* Editor: the claims                                                      *)
(***************************************************************************)
\* C9: after any sequence of editor operations no two profiles of the list
\* have names that are equal ignoring case.
C9_NamesUniqueIgnoringCase ==
    \A i, j \in DOMAIN profiles :
        i # j => ~EqualIgnoringCase(profiles[i].name, profiles[j].name)

\* the profiles of profiles.json, when it parses
DiskProfiles ==
    IF disk = None THEN <<>>
    ELSE LET r == from_str(disk[1]) IN IF r.ok THEN r.v ELSE <<>>

\* C10: a SaveProfile that validate would reject changes neither the list nor
\* profiles.json, so every stored profile satisfies validate.
C10_StoredProfilesValid ==
    /\ \A i \in DOMAIN profiles : validate(profiles[i], files).ok
    /\ \A i \in DOMAIN DiskProfiles : validate(DiskProfiles[i], files).ok

(***************************************************************************)
(* Overlay: the claims                                                     *)
(***************************************************************************)
\* C11: creating or updating an overlay loads the image successfully only
\* when it decodes to exactly 100 x 100; for every other width and height
\* the call returns an error that reports the dimensions found, and no
\* overlay window is created.
C11_OnlyExactSizeLoads ==
    overlay_call.op \in {"new", "update"} =>
        LET img == pictures[overlay_call.image_path]
            exact == img.width = 100 /\ img.height = 100
        IN  /\ overlay_result.ok => (img.decodes /\ exact)
            /\ (img.decodes /\ ~exact) =>
                   /\ ~overlay_result.ok
                   /\ overlay_result.err =
                          <<"size">> \o to_string(img.width) \o <<"x">>
                                     \o to_string(img.height)
                   /\ surfaces = (IF overlay_call.op = "new" THEN 0 ELSE 1)
                   /\ (overlay_call.op = "new") => (overlay = None)

\* C11 witness: new was called on a 64 x 64 image and refused, and no window
\* exists
C11_Witness ==
    /\ overlay_call.op = "new"
    /\ pictures[overlay_call.image_path] = Picture(64, 64)
    /\ ~overlay_result.ok
    /\ overlay_result.err = <<"size", "6", "4", "x", "6", "4">>
    /\ overlay = None
    /\ surfaces = 0

(***************************************************************************)
(* Activation: the claims                                                  *)
(***************************************************************************)
\* C12: at every point of any sequence of activations, deactivations and
\* offset adjustments at most one overlay surface exists; the old overlay is
\* released before the new one is started.
C12_AtMostOneSurface == surfaces <= 1

\* the profile the last event activated, when that event was the activation
\* of a profile of the list and the activation is complete
ActivationComplete ==
    /\ app_event.kind = "activate"
    /\ app_pc = "idle"
    /\ find_profile_index(app_profiles, app_event.name) # None

\* C13: after an activation of P completes, P is the active profile and an
\* overlay that is visible shows P's image at P's offsets; the overlay of the
\* profile before is not visible any more, also when P has its overlay
\* disabled or has no image.
C13_ActivationShowsOnlyNewProfile ==
    ActivationComplete =>
        LET idx == find_profile_index(app_profiles, app_event.name)[1]
            P == app_profiles[idx + 1]
        IN  /\ active_profile_index = Some(idx)
            /\ (overlay # None /\ overlay[1].is_visible) =>
                   /\ P.overlay_enabled
                   /\ P.crosshair_image_path = Some(overlay[1].crosshair_data)
                   /\ P.crosshair_x_offset = overlay[1].x_offset
                   /\ P.crosshair_y_offset = overlay[1].y_offset


(***************************************************************************)
(* Activation when the overlay cannot be started                           *)
(***************************************************************************)
HasPart(part) == \E i \in 1..Len(status_parts) : status_parts[i].part = part

\* the state an activation of the selected profile ends in
ActivationOutcome ==
    (status_message = "activated" /\ selected_profile_index # None) /\
        LET profile == profiles[selected_profile_index[1] + 1]
            wants == profile.overlay_enabled
                     /\ profile.crosshair_image_path # None
        IN  /\ active_profile_name = Some(profile.name)
            /\ (wants /\ overlay_handle = None) => HasPart("crosshair_error")
            /\ HasPart("crosshair_error") =>
                   (wants /\ overlay_handle = None)
            /\ \A i \in 1..Len(status_parts) :
                   status_parts[i].part = "crosshair_error" =>
                       status_parts[i].names[1][1] \in
                           StartOutcomes \ {"ok"}

\* C19: when the overlay of the profile being activated cannot be started
\* (wrong image size, decode failure, surface creation failure), the
\* activation still completes: the profile is the active one, no overlay is
\* live, and the status reports the overlay error; the status reports an
\* overlay error only in that case
C19_OverlayErrorStillActivates ==
    [][(ActivateProfile \/ TrayProfileSelected) => ActivationOutcome']_vars

C19_Witness ==
    /\ status_message = "activated"
    /\ HasPart("crosshair_error")
    /\ active_profile_name # None
    /\ overlay_handle = None


(***************************************************************************)
(* The list of profiles when profiles.json cannot be written               *)
(***************************************************************************)
\* C20: when writing profiles.json fails during SaveProfile or DeleteProfile,
\* the list of profiles in memory after the handler equals the list before
\* it; a handler that ends with the status "save_failed" is a SaveProfile
\* whose write failed
C20_FailedWriteKeepsList ==
    [][status_message' = "save_failed" => profiles' = profiles]_vars


(***************************************************************************)
(* The bus and the tray loops: the claims                                  *)
(***************************************************************************)
\* C14: in each direction of the bus the messages received are the messages
\* sent, in the order they were sent, each once: what was sent is what was
\* received followed by what is still in the channel
C14_ReceivedInSendOrder ==
    /\ sent_to_tray = received_by_tray \o gui_to_tray
    /\ sent_to_gui = received_by_gui \o tray_to_gui

C14_Witness ==
    /\ received_by_gui = <<MsgActivateProfile(ProfileA.name), MsgDeactivateProfile>>
    /\ Len(received_by_tray) = 2
    /\ received_by_tray[1] # received_by_tray[2]

\* C15: a tray loop that received Shutdown has terminated and received nothing
\* after it; a tray loop that sent Exit has terminated and sent nothing after
\* it
C15_ShutdownAndExitAreTerminal ==
    /\ \A i \in 1..Len(received_by_tray) :
           received_by_tray[i] = Shutdown =>
               tray_loop = "terminated" /\ i = Len(received_by_tray)
    /\ \A i \in 1..Len(sent_to_gui) :
           sent_to_gui[i] = MsgExit =>
               tray_loop = "terminated" /\ i = Len(sent_to_gui)

C15_Witness ==
    /\ "flyout" \in DOMAIN tray
    /\ tray_loop = "terminated"
    /\ received_by_tray # <<>>
    /\ received_by_tray[Len(received_by_tray)] = Shutdown

\* C16: once the editor's end of the bus is dropped, the tray loop terminates
C16_DisconnectedTerminates ==
    (gui_end = "dropped") ~> (tray_loop = "terminated")

C16_Witness ==
    /\ gui_end = "dropped"
    /\ tray_loop = "terminated"
    /\ tray_input = NoTrayInput
    /\ received_by_tray # <<>>
    /\ received_by_tray[Len(received_by_tray)] # Shutdown
    /\ \A i \in 1..Len(sent_to_gui) : sent_to_gui[i] # MsgExit

\* C17: when the loop takes a left-click-up less than 500 ms after the
\* left-click-up that started a click sequence, it sends exactly one
\* OpenSettings to the editor, shows or hides no flyout, and leaves the click
\* state idle (no click time, no pending single click); and no flyout is shown
\* or hidden before 500 ms have passed since the first click
C17_DoubleClickOpensSettings ==
    [][/\ (/\ tray_loop = "run_tray_flyout_thread"
           /\ tray_input'.icon = "LeftUp"
           /\ tray.last_click_time # None
           /\ now - tray.last_click_time[1] < DoubleClickMs)
          => /\ sent_to_gui' = IF gui_end = "open"
                               THEN Append(sent_to_gui, MsgOpenSettings)
                               ELSE sent_to_gui
             /\ tray_to_gui' = IF gui_end = "open"
                               THEN Append(tray_to_gui, MsgOpenSettings)
                               ELSE tray_to_gui
             /\ tray'.flyout = tray.flyout
             /\ tray'.last_click_time = None
             /\ tray'.pending_single_click = FALSE
       /\ (/\ tray_loop = "run_tray_flyout_thread"
           /\ (tray'.flyout = None) # (tray.flyout = None))
          => /\ tray.last_click_time # None
             /\ now - tray.last_click_time[1] >= DoubleClickMs
      ]_vars

C17_Witness ==
    /\ tray_input.icon = "LeftUp"
    /\ "flyout" \in DOMAIN tray
    /\ tray.last_click_time = None
    /\ now > 0
    /\ received_by_gui = <<MsgOpenSettings>>

\* C18: once the forwarder has taken every message of the flyout, each entry
\* selected in the flyout has been sent to the editor as a TrayToGui message
C18_SelectionReachesEditor ==
    forwarder_rx = <<>> =>
        \A i \in 1..Len(selections) :
            \E j \in 1..Len(sent_to_gui) : sent_to_gui[j] = selections[i]

(***************************************************************************)
(* gui/mod.rs: the tray menu of the editor, the claims                     *)
(***************************************************************************)
\* C21: once the editor has handled the Exit of its tray menu and the process
\* has exited, the live overlay was stopped and the tray icon released
C21_ExitReleasesOverlayAndTray ==
    ~editor_running => (overlay_handle = None /\ tray_icon = None)

\* the numbers of the clicks of a queue of menu events
ClickNumbers(events) == [j \in DOMAIN events |-> events[j].click]

\* the clicks were taken in the order they were made, and those that wait are
\* the ones made after them, in that order
TakenInClickOrder ==
    /\ taken = [i \in 1..Len(taken) |-> i]
    /\ ClickNumbers(menu_events) =
           [j \in 1..Len(menu_events) |-> Len(taken) + j]
    /\ Len(taken) + Len(menu_events) = clicked

\* one TrayTick: nothing changes if no click waits; otherwise the click that
\* waits longest, and no other, is taken and its message is handled
TickTakesFirst ==
    IF menu_events = <<>>
    THEN UNCHANGED <<killVars, storeVars, fsVars, restVars, profiles, formVars,
                     status_message, status_parts, data_dir,
                     active_profile_name, overlay_handle, focus, tray_icon,
                     menu_events, clicked, taken, editor_running>>
    ELSE LET message == check_tray_events(Head(menu_events))
         IN  /\ ClickNumbers(menu_events') = Tail(ClickNumbers(menu_events))
             /\ taken' = Append(taken, Head(menu_events).click)
             /\ message = Some("TrayExit") => ~editor_running'
             /\ message = Some("TrayDeactivate") => active_profile_name' = None
             /\ message = Some("TrayProfileSelected") =>
                    active_profile_name' = Some(Head(menu_events).name)
             /\ message = None =>
                    UNCHANGED <<profiles, formVars, status_message,
                                active_profile_name, overlay_handle, tray_icon,
                                editor_running>>

\* C26: each TrayTick takes at most one waiting tray event and handles it, the
\* events are handled in the order they were received, and a tick with no
\* waiting event changes no state
C26_TickTakesAtMostOneInOrder ==
    /\ []TakenInClickOrder
    /\ [][ticks' # ticks => TickTakesFirst]_vars

C26_Witness ==
    /\ Len(taken) = MaxClicks
    /\ ~editor_running

(***************************************************************************)
(* gui/mod.rs: the offsets of the live overlay, the claims                 *)
(***************************************************************************)
\* one of the arrow buttons or the centre button is pressed
OffsetAdjustment ==
    \/ CrosshairMoveUp
    \/ CrosshairMoveDown
    \/ CrosshairMoveLeft
    \/ CrosshairMoveRight
    \/ CrosshairCenter

\* C30: an offset adjustment made while an overlay is live leaves an overlay
\* live that shows the same image at the adjusted offsets; made while no
\* overlay is live it starts none
C30_AdjustmentOnlyMovesOverlay ==
    [][OffsetAdjustment =>
         IF overlay_handle # None
         THEN /\ overlay_handle' # None
              /\ overlay_handle'[1].image_path = overlay_handle[1].image_path
              /\ overlay_handle'[1].x_offset =
                     unwrap_or(parse_i32(edit_x_offset'), 0)
              /\ overlay_handle'[1].y_offset =
                     unwrap_or(parse_i32(edit_y_offset'), 0)
         ELSE overlay_handle' = None]_vars

(***************************************************************************)
(* tray.rs and tray_flyout.rs: the menus and the clicks, the claims        *)
(***************************************************************************)
\* C24: the menu of the tray icon lists the profiles the tray loop holds, with
\* the check mark on the active one, and a click on one of its profile items
\* is taken for the profile the item names
C24_ShownMenuIsCurrent ==
    tray_loop = "run_tray_thread" =>
        /\ tray.menu.items =
               [i \in 1..Len(tray.profiles) |->
                   [name |-> tray.profiles[i].name,
                    checked |-> tray.current_active = Some(tray.profiles[i].name)]]
        /\ \A i \in DOMAIN tray.menu.items :
               handle_menu_event(tray, MenuId("profile", tray.menu.submenu, i))
                   = Some(MsgActivateProfile(tray.menu.items[i].name))

\* a single click waits and its 500 ms have passed without another click
SingleClickDue ==
    /\ tray_loop = "run_tray_flyout_thread"
    /\ tray.pending_single_click
    /\ tray.last_click_time # None
    /\ now - tray.last_click_time[1] >= DoubleClickMs

\* C22: the iteration that finds a left click 500 ms old or older, followed by
\* no other click within its 500 ms, toggles the flyout (shown if it was
\* closed, closed if it was open) and sends no OpenSettings for it
C22_SingleClickTogglesFlyout ==
    [][(SingleClickDue /\ FlyoutIteration) =>
         /\ (tray'.flyout = None) # (tray.flyout = None)
         /\ tray_input'.menu = NoMenuEvent => sent_to_gui' = sent_to_gui]_vars

\* the state of the click state machine
ClickState(t) ==
    [last_click_time |-> t.last_click_time,
     pending_single_click |-> t.pending_single_click,
     flyout_open |-> t.flyout # None]

\* the messages the items of the context menu stand for
MenuMessages(kind) ==
    IF kind = "settings" THEN <<MsgOpenSettings>>
    ELSE IF kind = "exit" THEN <<MsgExit>>
    ELSE <<>>

\* C23: an iteration that takes an event of the context menu sends the one
\* message of Open Settings or Exit and none for Documentation and Report Bug,
\* whatever the click state; the click state changes only by a click taken or
\* a single click confirmed in the same iteration
C23_MenuEventSendsAtMostOne ==
    [][(FlyoutIteration /\ tray_input'.menu # NoMenuEvent) =>
         /\ sent_to_gui' = sent_to_gui \o
                (IF gui_end = "open" THEN MenuMessages(tray_input'.menu.kind)
                 ELSE <<>>)
         /\ (tray_input'.icon # "LeftUp" /\ ~SingleClickDue) =>
                ClickState(tray') = ClickState(tray)]_vars

C23_Witness ==
    /\ tray_loop = "run_tray_flyout_thread"
    /\ tray_input.menu = MenuId("settings", 0, 0)
    /\ tray_input.icon = "none"
    /\ tray.pending_single_click
    /\ sent_to_gui = <<MsgOpenSettings>>

RECURSIVE LastWith(_, _, _)
\* the last message with that tag among the first n of msgs, or None
LastWith(msgs, tag, n) ==
    IF n = 0 THEN None
    ELSE IF msgs[n].tag = tag THEN Some(msgs[n])
    ELSE LastWith(msgs, tag, n - 1)

\* the profile list and the active profile the tray loop holds
HeldProfiles == tray.profiles
HeldActive ==
    IF "current_active" \in DOMAIN tray THEN tray.current_active
    ELSE tray.active_profile

\* the tray holds the values the editor published last, or the ones it was
\* started with if none was published
TrayUpToDate ==
    LET p == LastWith(sent_to_tray, "ProfilesUpdated", Len(sent_to_tray))
        x == LastWith(sent_to_tray, "ActiveProfileChanged", Len(sent_to_tray))
    IN  /\ HeldProfiles = IF p = None THEN InitialProfiles ELSE p[1].profiles
        /\ HeldActive = IF x = None THEN None ELSE x[1].active

\* the loop has ended or the editor has dropped its end of the bus
TrayOrEditorGone == tray_loop = "terminated" \/ gui_end = "dropped"

\* C25: while the loop runs and the editor keeps its end open, the tray comes
\* to hold the profile list and the active profile published last, and holds
\* them whenever no published message is waiting
C25_TrayHoldsLastPublished ==
    /\ [](TrayOrEditorGone \/ gui_to_tray # <<>> \/ TrayUpToDate)
    /\ []<>(TrayOrEditorGone \/ TrayUpToDate)

C25_Witness ==
    /\ ~TrayOrEditorGone
    /\ Len(received_by_tray) = MaxSends
    /\ received_by_tray[1] = ActiveProfileChanged(Some(ProfileA.name))
    /\ received_by_tray[2] = ActiveProfileChanged(None)
    /\ TrayUpToDate

\* the farthest an offset can be from 0 and leave a pixel of the image on a
\* window of the bounds
Reach == MaxSurface + MaxSide

\* the column (or row) of the image that belongs at column (or row) d of a
\* window whose image starts at side/2 - image_side/2 + offset, or -1
SourceAt(d, side, image_side, offset) ==
    IF offset \notin (0 - Reach)..Reach THEN -1
    ELSE LET s == d - ((side \div 2) - (image_side \div 2) + offset)
         IN  IF s >= 0 /\ s < image_side THEN s ELSE -1

\* the frame of window w at a size: the image with its top-left corner at
\* (w/2 - image_w/2 + x_offset, h/2 - image_h/2 + y_offset), transparent
\* everywhere else
Placed(w, size) ==
    [width |-> size[1], height |-> size[2],
     pixels |-> [i \in 1..(size[1] * size[2]) |->
        LET sx == SourceAt((i - 1) % size[1], size[1], w.crosshair_width,
                           w.x_offset)
            sy == SourceAt((i - 1) \div size[1], size[2], w.crosshair_height,
                           w.y_offset)
        IN  IF sx >= 0 /\ sy >= 0
            THEN w.crosshair_data[sy * w.crosshair_width + sx + 1]
            ELSE Transparent]]

\* C27: render places the image with its top-left corner at
\* (w/2 - image_w/2 + x_offset, h/2 - image_h/2 + y_offset), copies each
\* source pixel unchanged, skips every destination outside the window, and
\* never fails because the image is partly or wholly off-screen: no call
\* panics, and a frame a call presented is the image placed on a transparent
\* window.
C27_RenderPlacesOrSkips ==
    /\ render_call.result # "panic"
    /\ render_call.presented => frame = Some(Placed(canvas, inner_size))

\* C29: hiding is idempotent, and after hide returns nothing is rendered until
\* the next show: a hide of a hidden window changes nothing of the window or
\* its frame, and a hide, an update or a resize of a hidden window presents
\* no frame and leaves the window hidden.
C29_HiddenWindowNeverRenders ==
    [][/\ (~canvas.is_visible /\ render_call'.op = "hide")
            => (canvas' = canvas /\ frame' = frame)
       /\ (~canvas.is_visible /\ render_call'.op \in {"hide", "update", "resize"})
            => /\ ~render_call'.presented
               /\ frame' = frame
               /\ ~canvas'.is_visible]_vars

\* a hidden window of some area was updated or resized, the call returned Ok,
\* and the frame it last presented is not the one of its image, offsets and
\* size
C29_Witness ==
    /\ ~canvas.is_visible
    /\ render_call.op \in {"update", "resize"}
    /\ render_call.result = "ok"
    /\ inner_size[1] > 0 /\ inner_size[2] > 0
    /\ frame # None
    /\ frame # Some(Placed(canvas, inner_size))

\* the window has pixels: both sides of its size are above 0
HasArea == inner_size[1] > 0 /\ inner_size[2] > 0

\* C28: whenever the overlay is visible, the last presented frame was rendered
\* from its current image, offsets and window size, so that every pixel
\* outside the crosshair rectangle is transparent and nothing of an earlier
\* frame remains: for a visible window that has pixels and whose last call
\* returned Ok, the frame is the current image placed at the current offsets
\* on a transparent window of the current size.
C28_VisibleFrameIsCurrent ==
    (canvas.is_visible /\ HasArea /\ render_call.result = "ok")
        => frame = Some(Placed(canvas, inner_size))

\* a visible window was resized and presented a frame for the new size, whose
\* first column shows the second column of the image: the first one is off the
\* window
C28_Witness ==
    /\ canvas.is_visible
    /\ render_call = [op |-> "resize", result |-> "ok", presented |-> TRUE]
    /\ canvas.x_offset = -1
    /\ canvas.crosshair_width > 1
    /\ frame = Some(Placed(canvas, inner_size))
    /\ frame[1].pixels[1] = canvas.crosshair_data[2]

(***************************************************************************)
(* The editor and the tray application: statuses and invariants            *)
(***************************************************************************)
\* the step wrote profiles.json and the write failed: the file does not hold
\* the list the handler left in memory
WriteFailed ==
    /\ data_dir # None
    /\ disk' # Some(to_string_pretty(profiles'))

\* C31: when writing profiles.json fails during SaveProfile or DeleteProfile,
\* the status message left after the handler reports the failure
C31_FailedWriteIsReported ==
    [][((SaveProfileStored \/ DeleteProfile) /\ WriteFailed)
          => status_message' = "save_failed"]_vars

\* C32: when the kill report of an activation holds failed targets, the
\* activation still completes (the profile becomes the active one) and the
\* status names the targets that failed
C32_FailedTargetsAreNamed ==
    [][(ActivateProfile /\ report'.failed # <<>>)
          => /\ active_profile_name' =
                    Some(profiles[selected_profile_index[1] + 1].name)
             /\ status_message' = "activated"
             /\ \E i \in 1..Len(status_parts') :
                    status_parts'[i].names = report'.failed]_vars

(***************************************************************************)
(* process.rs: the names that match                                        *)
(***************************************************************************)
\* one letter in either case: Σ, σ and ς are the same letter
SameLetter(c, d) ==
    \/ c = d
    \/ LowerChar(c) = LowerChar(d)
    \/ {c, d} \subseteq {"Σ", "σ", "ς"}

\* two names that differ only in letter case
DifferInCaseOnly(a, b) ==
    /\ Len(a) = Len(b)
    /\ \A i \in 1..Len(a) : SameLetter(a[i], b[i])

\* a name ends with .exe in some case
HasExe(a) ==
    Len(a) >= 4 /\ DifferInCaseOnly(SubSeq(a, Len(a) - 3, Len(a)), DotExe)

\* two names that differ only in letter case or in the presence of one
\* trailing .exe
SameProgram(a, b) ==
    \/ DifferInCaseOnly(a, b)
    \/ ~HasExe(a) /\ DifferInCaseOnly(a \o DotExe, b)
    \/ ~HasExe(b) /\ DifferInCaseOnly(a, b \o DotExe)

\* the names of one call of kill_processes
CallNames == Range(sys) \cup Range(process_names)

\* the processes a kill was attempted on for target i
AttemptedPids(i) == {a[2] : a \in {b \in attempts : b[1] = i}}

\* C33: normalize_process_name lower-cases its input and strips one trailing
\* ".exe": two names that differ only in letter case or in the presence of one
\* trailing .exe normalize to the same string, and a target matches a running
\* process exactly when their normalized names are equal or their lower-cased
\* raw names are equal
C33_NormalizedNamesMatch ==
    /\ \A a \in CallNames :
          to_lowercase(a) =
              IF HasExe(a) THEN normalize_process_name(a) \o DotExe
              ELSE normalize_process_name(a)
    /\ \A a, b \in CallNames :
          SameProgram(a, b)
              => normalize_process_name(a) = normalize_process_name(b)
    /\ KillDone =>
          \A i \in DOMAIN process_names :
              ~TargetBlocked(process_names[i]) =>
                  AttemptedPids(i) =
                      {pid \in DOMAIN sys :
                          \/ normalize_process_name(sys[pid])
                                 = normalize_process_name(process_names[i])
                          \/ to_lowercase(sys[pid])
                                 = to_lowercase(process_names[i])}

\* C34: whenever no profile is active, no overlay is live or visible: in the
\* editor a live overlay implies an active profile, and in the tray
\* application, once an event is handled, an overlay window is visible only
\* while a profile is active
C34_NoOverlayWithoutActiveProfile ==
    /\ overlay_handle # None => active_profile_name # None
    /\ (app_pc = "idle" /\ active_profile_index = None)
          => (overlay = None \/ ~overlay[1].is_visible)

\* C35: in the editor, whenever active_profile_name is Some(n), a profile
\* named n is in the list of profiles, after every message
C35_ActiveProfileIsListed ==
    active_profile_name # None
        => \E i \in DOMAIN profiles : profiles[i].name = active_profile_name[1]

\* C36: in the tray application, whenever active_profile_index is Some(i),
\* profiles[i] exists and its name equals config.active_profile, after every
\* event, also after profiles.json was reloaded with a different list
C36_ActiveIndexNamesActiveProfile ==
    (app_pc = "idle" /\ active_profile_index # None)
        => /\ active_profile_index[1] < Len(app_profiles)
           /\ config.active_profile =
                  Some(app_profiles[active_profile_index[1] + 1].name)

\* an overlay window exists and is visible
OverlayOnScreen == overlay # None /\ overlay[1].is_visible

\* C37: in the tray application, after every handled event (activate,
\* deactivate, toggle overlay, overlay close request) config.overlay_visible
\* is true exactly when an overlay window exists and is visible
C37_ConfigTellsOverlayVisible ==
    (app_running /\ app_pc = "idle")
        => (config.overlay_visible <=> OverlayOnScreen)

\* a toggle was handled that left the overlay window visible, and the
\* configuration in memory and in config.json says so
C37_Witness ==
    /\ app_running /\ app_pc = "idle"
    /\ app_event.kind = "toggle"
    /\ config.overlay_visible
    /\ OverlayOnScreen
    /\ config_file.overlay_visible

\* C38: in the editor, selected_profile_index is None or Some(i) with
\* i < profiles.len() after every message, so that profiles[i] in SaveProfile
\* and DeleteProfile is never out of bounds
C38_SelectionInBounds ==
    selected_profile_index = None
        \/ selected_profile_index[1] < Len(profiles)

\* the last profile of a list of two was deleted, and nothing is selected
C38_Witness ==
    /\ status_message = "deleted"
    /\ Len(profiles) = 1
    /\ selected_profile_index = None
    /\ disk = Some(to_string_pretty(profiles))

(***************************************************************************)
(* tray_flyout.rs: what becomes of each click                              *)
(***************************************************************************)

\* the step took a left-click-up of the tray icon: the loop writes the click
\* time for every click it takes, and for nothing else
ClickTaken ==
    /\ tray_loop = "run_tray_flyout_thread"
    /\ tray'.last_click_time # tray.last_click_time

\* C39: every left-click-up the loop takes has one outcome.  Taken less than
\* 500 ms after the click before it, it is the second half of a double click:
\* the click state becomes idle and no flyout is shown or hidden.  Otherwise
\* it becomes the pending single click, and a single click that was pending
\* until then is not discarded: its flyout toggle happens
C39_EveryClickHasOneOutcome ==
    [][ClickTaken =>
          IF /\ tray.last_click_time # None
             /\ now - tray.last_click_time[1] < DoubleClickMs
          THEN /\ tray'.last_click_time = None
               /\ ~tray'.pending_single_click
               /\ tray'.flyout = tray.flyout
          ELSE /\ tray'.last_click_time = Some(now)
               /\ tray'.pending_single_click
               /\ tray.pending_single_click
                    => (tray'.flyout = None) # (tray.flyout = None)]_vars

(***************************************************************************)
(* overlay.rs: an update whose image does not load                         *)
(***************************************************************************)

\* the step is an update of the overlay with an image file that
\* load_crosshair_image refuses (it does not decode, or is not 100 by 100)
UpdateFailsToLoad ==
    /\ UpdateOverlay
    /\ ~load_crosshair_image(overlay_call'.image_path).ok

\* C40: when OverlayWindow::update fails to load the new image, the overlay's
\* image data, width, height, offsets and visibility are as before the call,
\* and no frame is rendered: the call returns the error of the load, whatever
\* a render would have done
C40_FailedUpdateChangesNothing ==
    [][UpdateFailsToLoad =>
          /\ overlay'[1].crosshair_data = overlay[1].crosshair_data
          /\ overlay'[1].crosshair_width = overlay[1].crosshair_width
          /\ overlay'[1].crosshair_height = overlay[1].crosshair_height
          /\ overlay'[1].x_offset = overlay[1].x_offset
          /\ overlay'[1].y_offset = overlay[1].y_offset
          /\ overlay'[1].is_visible = overlay[1].is_visible
          /\ surfaces' = surfaces
          /\ overlay_result'
               = load_crosshair_image(overlay_call'.image_path)]_vars

\* a visible overlay was updated with an image file of the wrong size: the
\* call failed, and the window still shows the image of another file
C40_Witness ==
    /\ overlay # None
    /\ overlay[1].is_visible
    /\ overlay_call.op = "update"
    /\ ~overlay_result.ok
    /\ pictures[overlay_call.image_path].decodes
    /\ ~load_crosshair_image(overlay_call.image_path).ok
    /\ overlay[1].crosshair_data # overlay_call.image_path

====
